---- MODULE Spec2Model ----
(***************************************************************************)
(* A model of the archive access layer and of the map file driver of       *)
(* Piggywu981/modmaps:                                                     *)
(*   src/unnamed/part_000                                 parseMapFiles    *)
(*   src/packages/clis/parser/game-files/scs-archive.ts   ScsArchiveV2     *)
(*                                                                         *)
(* The specifications of the module share its variables:                   *)
(*   Spec         one run of parseMapFiles (archives opened, the base      *)
(*                phase, the mod loop, the return);                        *)
(*   SpecArchive  one ScsArchiveV2 over one file: parseEntries, the two    *)
(*                stores, store lookups and entry reads;                   *)
(*   SpecRead     one entry's read(), byte for byte, for a regular file    *)
(*                and for a texture object;                                *)
(*   SpecTable    parseEntries over entry tables of every shape;           *)
(*   SpecSectors  parseSectorFiles over one directory listing;             *)
(*   SpecLayers   parseMapFiles, for what the base game and each mod       *)
(*                contribute to the result;                                *)
(*   SpecPost     postProcess over items of every type;                    *)
(*   SpecRoads    postProcess over a road and the dividers next to it;     *)
(*   SpecMileage  postProcess over the mileage targets of defData.         *)
(***************************************************************************)
EXTENDS Integers, Sequences, FiniteSets, TLC

\* ------------------------------------------------------------------ bounds
MaxGame == 2
MaxMods == 2
\* entries in the entry table of the archive file
MaxEntries == 2
\* parseEntries calls on one archive
MaxCalls == 2
\* payload bytes an entry stores or declares
MaxPayload == 2
\* sector files listed in the map directories of one archive
MaxSectorFiles == 2
\* items in the sectors postProcess is given
MaxItems == 2
\* items next to the road in the sectors of the road scan
MaxDividers == 2
\* mileage targets in defData
MaxTargets == 2

\* ------------------------------------------------------------ state
VARIABLES
    \* parseMapFiles
    pc,            \* position in parseMapFiles, "idle" outside Spec
    gameFilePaths, \* number of game archive paths given
    modFilePaths,  \* number of mod archive paths given
    onlyDefs,      \* the onlyDefs option
    gameArchives,  \* number of game archives opened so far (a prefix)
    modArchives,   \* number of mod archives opened so far (a prefix)
    closeCount,    \* archive -> number of fs.closeSync calls on its fd
    pending,       \* exception in flight inside a try block, or "none"
    thrownBy,      \* what made parseMapFiles throw, or "none"
    modIndex,      \* index of the mod the for-of loop is at
    modResult,     \* mod index -> outcome of its loop iteration
    success,
    failure,
    uses,          \* the uses of archives so far, each with whether its fd was closed
    \* one ScsArchiveV2
    file,          \* the archive file: header, entry table, metadata table
    entries,       \* this.entries: the cached Entries object, obj = 0 for undefined
    parseLog,      \* one record per parseEntries call made so far
    lastOp,        \* the last store lookup or entry read, and what it gave
    \* one entry's read()
    rd,            \* the entry (metadata, image descriptor, stored payload) and
                   \* what its read() returned
    \* one parseSectorFiles call
    sec,           \* the sector files listed and what the call returned
    \* parseMapFiles: the data
    application,   \* version.application
    l10n,          \* locale key -> string (here: the archive it comes from)
    icons,         \* icon name -> image
    sectorData,    \* sectors: sector key -> items and nodes
    supplied,      \* what the game archives and each mod processed so far hold
    calls,         \* calls of parseIconMatFiles and parseSectorFiles so far
    result,        \* the object parseMapFiles returned
    \* one postProcess call
    world,         \* the items of the sectors
    post,          \* what the call threw or returned
    mileage        \* defData.mileageTargets before and after the call

mapVars == <<pc, gameFilePaths, modFilePaths, onlyDefs, gameArchives,
             modArchives, closeCount, pending, thrownBy, modIndex,
             modResult, success, failure, uses>>

archiveVars == <<file, entries, parseLog, lastOp>>

readVars == <<rd>>

sectorVars == <<sec>>

layerVars == <<application, l10n, icons, sectorData, supplied, calls, result>>

postVars == <<world, post, mileage>>

vars == <<mapVars, archiveVars, readVars, sectorVars, layerVars, postVars>>

\* What an action of one specification leaves alone: the others' state.
notMapVars == <<archiveVars, readVars, sectorVars, layerVars, postVars>>
notArchiveVars == <<mapVars, readVars, sectorVars, layerVars, postVars>>
notReadVars == <<mapVars, archiveVars, sectorVars, layerVars, postVars>>
notSectorVars == <<mapVars, archiveVars, readVars, layerVars, postVars>>
notLayerVars == <<archiveVars, readVars, sectorVars, postVars>>
notPostVars == <<mapVars, archiveVars, readVars, sectorVars, layerVars>>

\* ------------------------------------------------------------ parseMapFiles

GameIds == {<<"game", i>> : i \in 1..MaxGame}
ModIds == {<<"mod", i>> : i \in 1..MaxMods}
ArchiveIds == GameIds \cup ModIds

\* The archives whose ScsArchive(path) call returned: fs.openSync gave a fd.
OpenedArchives ==
    {<<"game", i>> : i \in 1..gameArchives} \cup {<<"mod", i>> : i \in 1..modArchives}

\* ScsArchiveV2.dispose: fs.closeSync(this.fd).
dispose(cc, a) == [cc EXCEPT ![a] = @ + 1]

\* gameArchives.forEach(a => a.dispose())
disposeAllGame(cc) ==
    [a \in ArchiveIds |->
        IF a \in {<<"game", i>> : i \in 1..gameArchives} THEN cc[a] + 1 ELSE cc[a]]

\* A use of archive a (parseEntries, a store lookup that reads the file, an
\* entry's read()), with whether its fd has been closed by then.
use(a) == [archive |-> a, closed |-> closeCount[a] >= 1]

\* The archives the first try block works on: gameEntries combines the game
\* archives, entries the game archives and the mod archives.
baseTryArchives == OpenedArchives

\* A loop iteration that works on the entries of all mod archives.
modTryAllArchives(i) == {<<"mod", j>> : j \in 1..modArchives}

\* The archive the try block of loop iteration i works on: modArchive.
modTryArchives(i) == {<<"mod", i>>}

MapInit ==
    /\ pc = "open"
    /\ gameFilePaths \in 0..MaxGame
    /\ modFilePaths \in 0..MaxMods
    /\ onlyDefs \in BOOLEAN
    /\ gameArchives = 0
    /\ modArchives = 0
    /\ closeCount = [a \in ArchiveIds |-> 0]
    /\ pending = "none"
    /\ thrownBy = "none"
    /\ modIndex = 1
    /\ modResult = [i \in 1..MaxMods |-> "pending"]
    /\ success = 0
    /\ failure = 0
    /\ uses = {}

\* gameFilePaths.map(p => ScsArchive(p)): one call; fs.openSync may throw,
\* and nothing guards the call.
OpenGame ==
    /\ pc = "open"
    /\ gameArchives < gameFilePaths
    /\ \E ok \in BOOLEAN :
        IF ok
        THEN /\ gameArchives' = gameArchives + 1
             /\ UNCHANGED <<pc, thrownBy>>
        ELSE /\ pc' = "thrown"
             /\ thrownBy' = "gameOpen"
             /\ UNCHANGED gameArchives
    /\ UNCHANGED <<gameFilePaths, modFilePaths, onlyDefs, modArchives, closeCount,
                   pending, modIndex, modResult, success, failure, uses>>
    /\ UNCHANGED notMapVars

\* modFilePaths.map(p => ScsArchive(p)): after every game archive is open,
\* still outside any try.
OpenMod ==
    /\ pc = "open"
    /\ gameArchives = gameFilePaths
    /\ modArchives < modFilePaths
    /\ \E ok \in BOOLEAN :
        IF ok
        THEN /\ modArchives' = modArchives + 1
             /\ UNCHANGED <<pc, thrownBy>>
        ELSE /\ pc' = "thrown"
             /\ thrownBy' = "modOpen"
             /\ UNCHANGED modArchives
    /\ UNCHANGED <<gameFilePaths, modFilePaths, onlyDefs, gameArchives, closeCount,
                   pending, modIndex, modResult, success, failure, uses>>
    /\ UNCHANGED notMapVars

\* The body of the first try: version, locale and definition files of the
\* game archives (and icons and sectors unless onlyDefs). Any of them may throw.
BaseTry ==
    /\ pc = "open"
    /\ gameArchives = gameFilePaths
    /\ modArchives = modFilePaths
    /\ \E threw \in BOOLEAN :
        pending' = IF threw THEN "base" ELSE "none"
    /\ uses' = uses \cup {use(a) : a \in baseTryArchives}
    /\ pc' = "baseFinally"
    /\ UNCHANGED <<gameFilePaths, modFilePaths, onlyDefs, gameArchives, modArchives,
                   closeCount, thrownBy, modIndex, modResult, success, failure>>
    /\ UNCHANGED notMapVars

\* finally { gameArchives.forEach(a => a.dispose()) }, then the exception, if
\* any, leaves parseMapFiles.
BaseFinally ==
    /\ pc = "baseFinally"
    /\ closeCount' = disposeAllGame(closeCount)
    /\ IF pending = "none"
       THEN /\ pc' = "modLoop"
            /\ UNCHANGED thrownBy
       ELSE /\ pc' = "thrown"
            /\ thrownBy' = pending
    /\ pending' = "none"
    /\ UNCHANGED <<gameFilePaths, modFilePaths, onlyDefs, gameArchives, modArchives,
                   modIndex, modResult, success, failure, uses>>
    /\ UNCHANGED notMapVars

\* The outcomes of one mod's try block: it throws (parseEntries, a locale, icon
\* or sector file), or it ends, with or without the sector error flag; the
\* flag is only read when sectors are parsed.
ModOutcomes == IF onlyDefs THEN {"ok", "threw"} ELSE {"ok", "sectorError", "threw"}

\* try { ... } catch (e) { logger.error(e); failure++ } of one loop iteration.
ModTry ==
    /\ pc = "modLoop"
    /\ modIndex <= modArchives
    /\ \E outcome \in ModOutcomes :
        /\ modResult' = [modResult EXCEPT ![modIndex] = outcome]
        /\ success' = IF outcome = "ok" /\ ~onlyDefs THEN success + 1 ELSE success
        /\ failure' = IF outcome \in {"sectorError", "threw"} THEN failure + 1 ELSE failure
    /\ uses' = uses \cup {use(a) : a \in modTryArchives(modIndex)}
    /\ pc' = "modFinally"
    /\ UNCHANGED <<gameFilePaths, modFilePaths, onlyDefs, gameArchives, modArchives,
                   closeCount, pending, thrownBy, modIndex>>
    /\ UNCHANGED notMapVars

\* A loop whose dispose() is the last statement of the try block, not a finally.
ModFinallyDisposeInTry ==
    /\ pc = "modFinally"
    /\ closeCount' = IF modResult[modIndex] = "threw" THEN closeCount
                     ELSE dispose(closeCount, <<"mod", modIndex>>)
    /\ modIndex' = modIndex + 1
    /\ pc' = "modLoop"
    /\ UNCHANGED <<gameFilePaths, modFilePaths, onlyDefs, gameArchives, modArchives,
                   pending, thrownBy, modResult, success, failure, uses>>
    /\ UNCHANGED notMapVars

\* finally { modArchive.dispose() } and the loop's step.
ModFinally ==
    /\ pc = "modFinally"
    /\ closeCount' = dispose(closeCount, <<"mod", modIndex>>)
    /\ modIndex' = modIndex + 1
    /\ pc' = "modLoop"
    /\ UNCHANGED <<gameFilePaths, modFilePaths, onlyDefs, gameArchives, modArchives,
                   pending, thrownBy, modResult, success, failure, uses>>
    /\ UNCHANGED notMapVars

\* After the loop: toDefData for onlyDefs, postProcess otherwise (which throws
\* on an item of unknown type).
Finish ==
    /\ pc = "modLoop"
    /\ modIndex > modArchives
    /\ \E threw \in BOOLEAN :
        IF threw /\ ~onlyDefs
        THEN /\ pc' = "thrown"
             /\ thrownBy' = "postProcess"
        ELSE /\ pc' = "returned"
             /\ UNCHANGED thrownBy
    /\ UNCHANGED <<gameFilePaths, modFilePaths, onlyDefs, gameArchives, modArchives,
                   closeCount, pending, modIndex, modResult, success, failure, uses>>
    /\ UNCHANGED notMapVars

\* ------------------------------------------------------------ text and hash

\* A text is a sequence of one-character strings.
Digits == <<"0", "1", "2", "3", "4", "5", "6", "7", "8", "9">>
Alphabet == Digits \o <<"-", "a", "d", "e", "f", "m", "p">>

CharCode(c) == CHOOSE i \in 1..Len(Alphabet) : Alphabet[i] = c

\* The range of the hash in the model (2^64 in the program).
HashRange == 1000003

\* city64: the native hash of a text, here a polynomial hash of its characters;
\* what the stores need of it is that it is a fixed function of the text.
RECURSIVE city64(_)
city64(s) ==
    IF s = <<>> THEN 7
    ELSE (city64(SubSeq(s, 1, Len(s) - 1)) * 31 + CharCode(s[Len(s)])) % HashRange

\* The decimal text of a natural number.
RECURSIVE DecimalDigits(_)
DecimalDigits(n) ==
    IF n < 10 THEN <<Digits[n + 1]>>
    ELSE DecimalDigits(n \div 10) \o <<Digits[(n % 10) + 1]>>

\* String(n) of a JavaScript integer, as `salt + key` makes it.
NumberToString(n) == IF n < 0 THEN <<"-">> \o DecimalDigits(-n) ELSE DecimalDigits(n)

\* r.int16le of the two bytes that hold the unsigned value u.
int16le(u) == IF u >= 32768 THEN u - 65536 ELSE u

\* hash_key of the format: the salt is the unsigned 16-bit header field, in
\* decimal, before the path. The files of the model are written with it.
hash_key(path, saltField) ==
    city64(IF saltField = 0 THEN path ELSE DecimalDigits(saltField) \o path)

\* ------------------------------------------------------------ the archive file

\* MetadataType
IMG == 1
SAMPLE == 2
MIP_PROXY == 3
INLINE_DIRECTORY == 4
PMA_INFO == 5
PMG_INFO == 6
PLAIN == 128
DIRECTORY == 129
MIP_0 == 130
MIP_1 == 131
MIP_TAIL == 132

\* Compression
NONE == 0
ZLIB == 1
ZLIB_HEADERLESS == 2
GDEFLATE == 3
ZSTD == 4

\* The paths the files of the model hold and the lookups ask for.
Paths == {<<"m", "a", "p">>, <<"d", "e", "f">>}

\* The salt fields of the headers of the model: none, the salt of the
\* format's example, and one with the top bit set.
SaltFields == {0, 7, 65535}

\* The stored payload of an entry of the model's archive files: one byte.
PlainPayload(compression) ==
    [compressedSize |-> 1, compression |-> compression, size |-> 1]

\* The image descriptor of the texture objects of the model's archive files,
\* and of an entry that has none.
PlainImage == [width |-> 0, height |-> 0, image |-> 0]
NoImage == PlainImage

\* The metadata of the entries the files of the model are made of: the type
\* of each metadata header and the payload descriptor it points to.
Shapes ==
    [ file0 |-> [isDirectory |-> FALSE,
                 metas |-> << [type |-> PLAIN, plain |-> PlainPayload(NONE)] >>],
      file2 |-> [isDirectory |-> FALSE,
                 metas |-> << [type |-> PLAIN, plain |-> PlainPayload(ZLIB_HEADERLESS)] >>],
      dir0  |-> [isDirectory |-> TRUE,
                 metas |-> << [type |-> DIRECTORY, plain |-> PlainPayload(NONE)] >>],
      dir4  |-> [isDirectory |-> TRUE,
                 metas |-> << [type |-> DIRECTORY, plain |-> PlainPayload(ZSTD)] >>],
      tobj  |-> [isDirectory |-> FALSE,
                 metas |-> << [type |-> IMG, image |-> PlainImage],
                              [type |-> SAMPLE],
                              [type |-> MIP_TAIL, plain |-> PlainPayload(GDEFLATE)] >>],
      \* entries a well-formed archive does not hold
      empty   |-> [isDirectory |-> FALSE, metas |-> << >>],
      fileMip |-> [isDirectory |-> FALSE,
                   metas |-> << [type |-> PLAIN, plain |-> PlainPayload(NONE)],
                                [type |-> MIP_0] >>],
      mip     |-> [isDirectory |-> FALSE, metas |-> << [type |-> MIP_PROXY] >>],
      pma     |-> [isDirectory |-> FALSE, metas |-> << [type |-> PMA_INFO] >>],
      unknown |-> [isDirectory |-> FALSE, metas |-> << [type |-> 7] >>],
      file5   |-> [isDirectory |-> FALSE,
                   metas |-> << [type |-> PLAIN, plain |-> PlainPayload(5)] >>],
      dirPlain |-> [isDirectory |-> TRUE,
                    metas |-> << [type |-> PLAIN, plain |-> PlainPayload(NONE)] >>],
      fileDir |-> [isDirectory |-> FALSE,
                   metas |-> << [type |-> DIRECTORY, plain |-> PlainPayload(NONE)] >>],
      tobjDir |-> [isDirectory |-> TRUE,
                   metas |-> << [type |-> IMG, image |-> PlainImage],
                                [type |-> SAMPLE],
                                [type |-> MIP_TAIL, plain |-> PlainPayload(GDEFLATE)] >>] ]

\* The shapes of the entries of well-formed archives.
ShapeNames == {"file0", "file2", "dir0", "dir4", "tobj"}

\* The shapes of the entries of the entry tables parsed for their own sake.
TableShapeNames == DOMAIN Shapes \ {"file2", "dir4"}

\* What a file's author chooses per entry: the path it is stored under and
\* its shape.
EntryPlans == [path : Paths, shape : ShapeNames]

RECURSIVE MetadataCountBefore(_, _)
MetadataCountBefore(plans, i) ==
    IF i <= 1 THEN 0
    ELSE MetadataCountBefore(plans, i - 1) + Len(Shapes[plans[i - 1].shape].metas)

RECURSIVE AllMetas(_)
AllMetas(plans) ==
    IF plans = <<>> THEN <<>>
    ELSE AllMetas(SubSeq(plans, 1, Len(plans) - 1)) \o Shapes[plans[Len(plans)].shape].metas

\* The file written for a header and a sequence of entry plans: EntryV2Header
\* records, and the metadata table, whose k-th metadata header (k from 0) and
\* the descriptor it points to are metadataTable[k + 1].
FileOf(header, plans) ==
    [ header |-> header,
      entryTable |->
        [i \in 1..Len(plans) |->
            [hash |-> hash_key(plans[i].path, header.salt),
             metadataIndex |-> MetadataCountBefore(plans, i),
             metadataCount |-> Len(Shapes[plans[i].shape].metas),
             isDirectory |-> Shapes[plans[i].shape].isDirectory]],
      metadataTable |-> AllMetas(plans) ]

ValidHeader(saltField) ==
    [magic |-> "SCS#", version |-> 2, salt |-> saltField, hashMethod |-> "CITY"]

InvalidHeaders ==
    { [ValidHeader(0) EXCEPT !.magic = "SCS*"],
      [ValidHeader(0) EXCEPT !.version = 1],
      [ValidHeader(0) EXCEPT !.hashMethod = "XXXX"] }

PlansUpTo(n) == UNION {[1..k -> EntryPlans] : k \in 0..n}

\* The archive files of the model: every table of up to MaxEntries entries
\* under a valid header, and one table under each invalid header.
Files ==
    {FileOf(ValidHeader(s), plans) : s \in SaltFields, plans \in PlansUpTo(MaxEntries)}
    \cup {FileOf(h, <<[path |-> <<"m", "a", "p">>, shape |-> "file0"]>>) : h \in InvalidHeaders}

\* The path the i-th entry of a table of distinct paths is stored under.
TablePath(i) == <<"m", "a", "p">> \o DecimalDigits(i)

\* The entry tables parsed for their own sake: up to MaxEntries entries of any
\* shape under distinct paths, salt 0.
TableFiles ==
    UNION {{FileOf(ValidHeader(0),
                   [i \in 1..k |-> [path |-> TablePath(i), shape |-> shapes[i]]])
              : shapes \in [1..k -> TableShapeNames]} : k \in 0..MaxEntries}

\* ------------------------------------------------------------ entry read()

\* The byte the stored payload holds at position i.
PayloadByte(i) == 160 + i

Payload(n) == [i \in 1..n |-> PayloadByte(i)]

\* What the disk gives for one entry: `short` when fs.readSync returns fewer
\* bytes than asked, and `out`, what the decompressor makes of the bytes: the
\* inflated length for zlib, -1 when inflate throws or gdeflate returns non-zero.
HealthyDisk(metadata) == [short |-> FALSE, out |-> metadata.uncompressedSize]

Failed(error) == [ok |-> FALSE, error |-> error, bytes |-> <<>>]
Returned(bytes) == [ok |-> TRUE, error |-> "", bytes |-> bytes]

\* A read whose GDEFLATE output buffer has the compressed size.
readGdeflateIntoRawSize(metadata, disk) ==
    IF disk.short /\ metadata.compressedSize > 0
    THEN Failed("assert")
    ELSE CASE metadata.compression = NONE -> Returned(Payload(metadata.compressedSize))
           [] metadata.compression = ZLIB ->
                IF disk.out < 0 THEN Failed("inflate") ELSE Returned(Payload(disk.out))
           [] metadata.compression = GDEFLATE ->
                IF disk.out < 0 THEN Failed("gdeflate error")
                ELSE Returned(Payload(metadata.compressedSize))
           [] OTHER -> Failed("unsupported compression type")

\* ScsArchiveEntryV2.read
read(metadata, disk) ==
    IF disk.short /\ metadata.compressedSize > 0
    THEN Failed("assert")
    ELSE CASE metadata.compression = NONE -> Returned(Payload(metadata.compressedSize))
           [] metadata.compression = ZLIB ->
                IF disk.out < 0 THEN Failed("inflate") ELSE Returned(Payload(disk.out))
           [] metadata.compression = GDEFLATE ->
                IF disk.out < 0 THEN Failed("gdeflate error")
                ELSE Returned(Payload(metadata.uncompressedSize))
           [] OTHER -> Failed("unsupported compression type")

\* ------------------------------------------------------------ texture objects

\* ImageMeta: the fields the MappedNumbers make of the stored descriptor
\* [width, height, image], a 16-bit, a 16-bit and a 32-bit number.
\* An isCube that tests bit 12 alone.
isCubeBit12(n) == ((n \div 4096) % 2) # 0

\* isCube: ((n >> 12) & 0b11) !== 0
isCube(n) == ((n \div 4096) % 4) # 0

ImageMeta(stored) ==
    [width |-> stored.width + 1,
     height |-> stored.height + 1,
     image |-> [mipmapCount |-> 1 + (stored.image % 16),
                format |-> (stored.image \div 16) % 256,
                isCube |-> isCube(stored.image),
                count |-> ((stored.image \div 16384) % 64) + 1]]

\* r.uint32le
uint32le(v) == <<v % 256, (v \div 256) % 256, (v \div 65536) % 256, (v \div 16777216) % 256>>

\* Buffer.alloc(n)
alloc(n) == [i \in 1..n |-> 0]

\* source.copy(target, targetStart): as many bytes as fit.
copy(source, target, targetStart) ==
    [i \in 1..Len(target) |->
        IF i > targetStart /\ i - targetStart <= Len(source)
        THEN source[i - targetStart] ELSE target[i]]

\* The character codes of 'DDS ' and 'DX10'.
DdsMagic == <<68, 68, 83, 32>>
FourCcDX10 == <<68, 88, 49, 48>>

\* DdsHeader.size() and DdsHeaderDX10.size()
DdsHeaderSize == 124
DdsHeaderDX10Size == 20

\* D3d10ResourceDimension.Texture2d and D3d10ResourceMiscFlag.TextureCube
Texture2d == 3
TextureCube == 4

\* DdsHeader.toBuffer: the legacy header, every field a uint32le but the
\* reserved words and the fourCc.
DdsHeaderToBuffer(h) ==
    uint32le(h.size) \o uint32le(h.flags) \o uint32le(h.height) \o uint32le(h.width)
    \o uint32le(h.pitchOrLinearSize) \o uint32le(h.depth) \o uint32le(h.mipMapCount)
    \o alloc(44)
    \o uint32le(h.ddsPixelFormat.size) \o uint32le(h.ddsPixelFormat.flags)
    \o h.ddsPixelFormat.fourCc
    \o uint32le(h.ddsPixelFormat.rgbBitCount) \o uint32le(h.ddsPixelFormat.rBitMask)
    \o uint32le(h.ddsPixelFormat.gBitMask) \o uint32le(h.ddsPixelFormat.bBitMask)
    \o uint32le(h.ddsPixelFormat.aBitMask)
    \o uint32le(h.caps) \o uint32le(h.caps2) \o uint32le(h.caps3) \o uint32le(h.caps4)
    \o alloc(4)

\* DdsHeaderDX10.toBuffer
DdsHeaderDX10ToBuffer(h) ==
    uint32le(h.dxgiFormat) \o uint32le(h.resourceDimension) \o uint32le(h.miscFlag)
    \o uint32le(h.arraySize) \o uint32le(h.miscFlags2)

\* ScsArchiveTobjFile.read
tobjRead(metadata, imageMetadata, disk) ==
    LET base == read(metadata, disk)
        ddsBytes == base.bytes
        meta == ImageMeta(imageMetadata)
        header == DdsHeaderToBuffer(
            [size |-> DdsHeaderSize, flags |-> 0, height |-> meta.height,
             width |-> meta.width, pitchOrLinearSize |-> Len(ddsBytes), depth |-> 0,
             mipMapCount |-> meta.image.mipmapCount,
             ddsPixelFormat |-> [size |-> 32, flags |-> 4, fourCc |-> FourCcDX10,
                                 rgbBitCount |-> 0, rBitMask |-> 0, gBitMask |-> 0,
                                 bBitMask |-> 0, aBitMask |-> 0],
             caps |-> 0, caps2 |-> 0, caps3 |-> 0, caps4 |-> 0])
        headerDX10 == DdsHeaderDX10ToBuffer(
            [dxgiFormat |-> meta.image.format, resourceDimension |-> Texture2d,
             miscFlag |-> IF meta.image.isCube THEN TextureCube ELSE 0,
             arraySize |-> 1, miscFlags2 |-> 0])
        ddsFile == alloc(4 + DdsHeaderSize + DdsHeaderDX10Size + Len(ddsBytes))
    IN  IF ~base.ok THEN base
        ELSE Returned(copy(ddsBytes,
                           copy(headerDX10, copy(header, copy(DdsMagic, ddsFile, 0), 4), 128),
                           4 + DdsHeaderSize + DdsHeaderDX10Size))

\* entry.read(), by the class of the entry.
entryRead(class, metadata, imageMetadata, disk) ==
    IF class = "ScsArchiveTobjFile" THEN tobjRead(metadata, imageMetadata, disk)
    ELSE read(metadata, disk)

\* ------------------------------------------------------------ parseEntries

\* isValid
isValid(header) ==
    /\ header.magic = "SCS#"
    /\ header.hashMethod = "CITY"
    /\ header.version = 2

\* A walk that has no case for PMA_INFO.
RecordedWithoutPmaInfo == {IMG, SAMPLE, PLAIN, DIRECTORY, MIP_TAIL, PMG_INFO}

\* The cases of the switch of createMetadataMap that record the header, and
\* those that skip it.
Recorded == {IMG, SAMPLE, PLAIN, DIRECTORY, MIP_TAIL, PMA_INFO, PMG_INFO}
Skipped == {MIP_0, MIP_1, MIP_PROXY, INLINE_DIRECTORY}
PlainTypes == {PLAIN, DIRECTORY, MIP_TAIL}

\* The metadata indices the loops of createMetadataMap visit.
Visited(f) ==
    UNION {{f.entryTable[e].metadataIndex + i : i \in 0..f.entryTable[e].metadataCount - 1}
             : e \in DOMAIN f.entryTable}

\* toCompression: throws on a value above 4.
toCompressionThrows(compression) == compression \notin {NONE, ZLIB, ZLIB_HEADERLESS, GDEFLATE, ZSTD}

\* createMetadataMap: throws on a header outside the table, of unknown type or
\* of unknown compression; else the map from metadataIndex + i to the metadata.
createMetadataMapThrows(f) ==
    \E k \in Visited(f) :
        \/ k + 1 \notin DOMAIN f.metadataTable
        \/ /\ k + 1 \in DOMAIN f.metadataTable
           /\ \/ f.metadataTable[k + 1].type \notin Recorded \cup Skipped
              \/ /\ f.metadataTable[k + 1].type \in PlainTypes
                 /\ toCompressionThrows(f.metadataTable[k + 1].plain.compression)

createMetadataMap(f) ==
    [k \in {v \in Visited(f) : f.metadataTable[v + 1].type \in Recorded}
        |-> f.metadataTable[k + 1]]

\* The calls of logger.warn('skipped metadata types', ...) of a createMetadataMap
\* that returns: one when a visited header has a skipped type.
skippedWarnings(f) ==
    IF \E k \in Visited(f) : f.metadataTable[k + 1].type \in Skipped THEN 1 ELSE 0

\* The EntryV2Metadata both createEntryV2 and createTobjEntry build.
EntryMetadata(header, plainMeta) ==
    [hash |-> header.hash,
     compressedSize |-> plainMeta.plain.compressedSize,
     uncompressedSize |-> plainMeta.plain.size,
     compression |-> plainMeta.plain.compression,
     isDirectory |-> header.isDirectory]

\* An entry object: `index` is the entry header it was made from, `class` the
\* class constructed.
Entry(i, class, header, plainMeta, imageMeta) ==
    [index |-> i,
     class |-> class,
     type |-> IF class = "ScsArchiveDirectoryV2" THEN "directory" ELSE "file",
     hash |-> header.hash,
     metadata |-> EntryMetadata(header, plainMeta),
     imageMetadata |-> imageMeta]

NoEntry == [index |-> 0]

\* createTobjEntry: "" when it returns, else what it throws.
createTobjEntryError(header, metadataMap) ==
    LET idx == {header.metadataIndex, header.metadataIndex + 1, header.metadataIndex + 2}
    IN  IF header.isDirectory \/ header.metadataCount # 3 THEN "checkArgument"
        ELSE IF ~(idx \subseteq DOMAIN metadataMap) THEN "assertExists"
        ELSE IF \E t \in {IMG, SAMPLE, MIP_TAIL} : \A k \in idx : metadataMap[k].type # t
             THEN "assertExists"
        ELSE ""

createTobjEntry(i, header, metadataMap) ==
    LET idx == {header.metadataIndex, header.metadataIndex + 1, header.metadataIndex + 2}
        first(t) == metadataMap[CHOOSE k \in idx :
                        /\ metadataMap[k].type = t
                        /\ \A j \in idx : j < k => metadataMap[j].type # t]
    IN  Entry(i, "ScsArchiveTobjFile", header, first(MIP_TAIL), first(IMG).image)

\* Every entry class reading its payload when constructed.
ConstructorReadsAlways(isDirectory) == TRUE

\* The constructor of ScsArchiveDirectoryV2 reads the directory's payload;
\* the constructors of the file classes read nothing.
ConstructorReads(isDirectory) == isDirectory

\* createEntryV2: "" when it returns, else what it throws. The disk is healthy
\* here: an I/O failure during parseEntries is the caller's choice.
createEntryV2Error(header, metadataMap) ==
    IF header.metadataCount = 3 THEN createTobjEntryError(header, metadataMap)
    ELSE IF header.metadataIndex \notin DOMAIN metadataMap THEN "assertExists"
    ELSE LET assocMetadata == metadataMap[header.metadataIndex]
             metadata == EntryMetadata(header, assocMetadata)
         IN  IF header.isDirectory /\ assocMetadata.type # DIRECTORY THEN "assert"
             ELSE IF assocMetadata.type \notin {PLAIN, DIRECTORY} THEN "assert"
             ELSE IF ConstructorReads(header.isDirectory)
                     /\ ~read(metadata, HealthyDisk(metadata)).ok
                  THEN read(metadata, HealthyDisk(metadata)).error
             ELSE ""

createEntryV2(i, header, metadataMap) ==
    IF header.metadataCount = 3 THEN createTobjEntry(i, header, metadataMap)
    ELSE Entry(i,
               IF header.isDirectory THEN "ScsArchiveDirectoryV2" ELSE "ScsArchiveFileV2",
               header, metadataMap[header.metadataIndex], NoImage)

\* createStore: new Map(values.map(v => [v.hash, v])), a later value of a hash
\* replacing an earlier one, and the salt the lookups use.
createStore(values, salt) ==
    [map |-> [h \in {values[i].hash : i \in DOMAIN values} |->
                 values[CHOOSE i \in DOMAIN values :
                     /\ values[i].hash = h
                     /\ \A j \in DOMAIN values : values[j].hash = h => j <= i]],
     salt |-> salt]

\* The text a store hashes for a key: salt === 0 ? key : salt + key.
StoreText(salt, key) == IF salt = 0 THEN key ELSE NumberToString(salt) \o key

\* Store.get
StoreGet(store, key) ==
    LET h == city64(StoreText(store.salt, key))
    IN  IF h \in DOMAIN store.map THEN store.map[h] ELSE NoEntry

\* The entries of one type, in table order (directories.push / files.push).
RECURSIVE entriesOfType(_, _)
entriesOfType(es, type) ==
    IF es = <<>> THEN <<>>
    ELSE LET rest == entriesOfType(SubSeq(es, 1, Len(es) - 1), type)
         IN  IF es[Len(es)].type = type THEN Append(rest, es[Len(es)]) ELSE rest

EmptyStore == [map |-> <<>>, salt |-> 0]
NoEntries == [obj |-> 0, directories |-> EmptyStore, files |-> EmptyStore]

\* What parseEntries throws on file f when no I/O fails, "" when it returns.
parseError(f) ==
    IF createMetadataMapThrows(f) THEN "createMetadataMap"
    ELSE LET mm == createMetadataMap(f)
             bad == {e \in DOMAIN f.entryTable : createEntryV2Error(f.entryTable[e], mm) # ""}
         IN  IF bad = {} THEN ""
             ELSE createEntryV2Error(f.entryTable[CHOOSE e \in bad : \A o \in bad : e <= o], mm)

\* The Entries object parseEntries builds from file f; obj names the object.
parsedEntries(f, obj) ==
    LET mm == createMetadataMap(f)
        all == [e \in DOMAIN f.entryTable |-> createEntryV2(e, f.entryTable[e], mm)]
    IN  [obj |-> obj,
         directories |-> createStore(entriesOfType(all, "directory"), int16le(f.header.salt)),
         files |-> createStore(entriesOfType(all, "file"), int16le(f.header.salt))]

\* A parseEntries that never returns the cached object.
CacheHitNever == FALSE

\* if (this.entries) return this.entries
CacheHit == entries.obj # 0

ArchiveInit ==
    /\ file \in Files
    /\ entries = NoEntries
    /\ parseLog = <<>>
    /\ lastOp = [op |-> "none"]

\* One call of parseEntries. `io` is an I/O or inflate failure while the
\* tables or a directory's payload are read. The call is logged with whether
\* it returned, the object it returned, whether it read the tables, what it
\* threw, whether createMetadataMap returned, the map it returned and the
\* warnings it logged.
ParseEntries ==
    /\ Len(parseLog) < MaxCalls
    /\ \E io \in BOOLEAN :
        LET call == Len(parseLog) + 1
            error == IF io THEN "io" ELSE parseError(file)
            walked == ~io /\ ~createMetadataMapThrows(file)
        IN  IF ~isValid(file.header)
            THEN /\ ~io
                 /\ parseLog' = Append(parseLog,
                        [ok |-> FALSE, obj |-> 0, reads |-> FALSE, error |-> "checkState",
                         walked |-> FALSE, metadataMap |-> <<>>, warnings |-> 0])
                 /\ UNCHANGED entries
            ELSE IF CacheHit
            THEN /\ ~io
                 /\ parseLog' = Append(parseLog,
                        [ok |-> TRUE, obj |-> entries.obj, reads |-> FALSE, error |-> "",
                         walked |-> FALSE, metadataMap |-> <<>>, warnings |-> 0])
                 /\ UNCHANGED entries
            ELSE IF error # ""
            THEN /\ parseLog' = Append(parseLog,
                        [ok |-> FALSE, obj |-> 0, reads |-> TRUE, error |-> error,
                         walked |-> walked,
                         metadataMap |-> IF walked THEN createMetadataMap(file) ELSE <<>>,
                         warnings |-> IF walked THEN skippedWarnings(file) ELSE 0])
                 /\ UNCHANGED entries
            ELSE /\ entries' = parsedEntries(file, call)
                 /\ parseLog' = Append(parseLog,
                        [ok |-> TRUE, obj |-> call, reads |-> TRUE, error |-> "",
                         walked |-> TRUE, metadataMap |-> createMetadataMap(file),
                         warnings |-> skippedWarnings(file)])
    /\ UNCHANGED <<file, lastOp>>
    /\ UNCHANGED notArchiveVars

\* entries.directories.get(key) or entries.files.get(key) on the Entries
\* object a parseEntries call returned.
Get ==
    /\ entries.obj # 0
    /\ \E kind \in {"directories", "files"}, key \in Paths :
        lastOp' = [op |-> "get", kind |-> kind, key |-> key,
                   text |-> StoreText(entries[kind].salt, key),
                   result |-> StoreGet(entries[kind], key)]
    /\ UNCHANGED <<file, entries, parseLog>>
    /\ UNCHANGED notArchiveVars

\* The file entries a lookup can return.
FileEntries == {entries.files.map[h] : h \in DOMAIN entries.files.map}

\* read() of a file entry of the store; the disk is healthy or reads short.
Read ==
    /\ entries.obj # 0
    /\ \E entry \in FileEntries, short \in BOOLEAN :
        lastOp' = [op |-> "read", entry |-> entry,
                   result |-> entryRead(entry.class, entry.metadata, entry.imageMetadata,
                                        [HealthyDisk(entry.metadata) EXCEPT !.short = short])]
    /\ UNCHANGED <<file, entries, parseLog>>
    /\ UNCHANGED notArchiveVars

\* ------------------------------------------------------------ one entry's read()

\* The stored image descriptors of the model's texture objects: the packed
\* number holds the mipmap count in bits 0-3, the format in bits 4-11, the
\* cubemap bits 12-13 and, above them, the array count.
StoredImages ==
    {[width |-> w, height |-> 65535,
      image |-> mip + 16 * fmt + 4096 * cube + 16384]
        : w \in {0, 255}, mip \in {0, 8}, fmt \in {28, 255}, cube \in 0..3}

\* What the disk can do to an entry of each compression.
Disks(compression) ==
    [short : BOOLEAN,
     out : CASE compression = ZLIB -> -1..MaxPayload
             [] compression = GDEFLATE -> {-1, 0}
             [] OTHER -> {0}]

ReadInit ==
    \E compression \in {NONE, ZLIB, ZLIB_HEADERLESS, GDEFLATE, ZSTD},
       compressedSize \in 0..MaxPayload, size \in 0..MaxPayload :
      \E disk \in Disks(compression),
         shape \in {[class |-> "ScsArchiveFileV2", imageMetadata |-> NoImage]}
                   \cup {[class |-> "ScsArchiveTobjFile", imageMetadata |-> img]
                            : img \in StoredImages} :
        rd = [state |-> "entry",
              class |-> shape.class,
              metadata |-> [hash |-> 0, compressedSize |-> compressedSize,
                            uncompressedSize |-> size, compression |-> compression,
                            isDirectory |-> FALSE],
              imageMetadata |-> shape.imageMetadata,
              disk |-> disk,
              result |-> Failed("")]

\* read() of the entry.
ReadEntry ==
    /\ rd.state = "entry"
    /\ rd' = [rd EXCEPT !.state = "read",
                        !.result = entryRead(rd.class, rd.metadata, rd.imageMetadata, rd.disk)]
    /\ UNCHANGED notReadVars

\* ------------------------------------------------------------ parseSectorFiles

\* The file name stems of the model's sector files: two sector keys and one
\* the sector regex rejects.
SectorKeys ==
    { <<"s", "e", "c", "+", "0", "0", "0", "1", "-", "0", "0", "0", "2">>,
      <<"s", "e", "c", "-", "0", "0", "1", "0", "+", "0", "0", "0", "0">> }

Stems == SectorKeys \cup { <<"s", "e", "c", "1">> }

IsDigit(c) == \E i \in 1..Len(Digits) : Digits[i] = c

\* /^sec([+-]\d{4})([+-]\d{4})$/.test(sectorKey)
sectorRegexTest(k) ==
    /\ Len(k) = 13
    /\ SubSeq(k, 1, 3) = <<"s", "e", "c">>
    /\ k[4] \in {"+", "-"} /\ k[9] \in {"+", "-"}
    /\ \A i \in (5..8) \cup (10..13) : IsDigit(k[i])

\* The value of a run of decimal digits.
RECURSIVE DigitsValue(_)
DigitsValue(t) ==
    IF t = <<>> THEN 0
    ELSE 10 * DigitsValue(SubSeq(t, 1, Len(t) - 1))
         + (CHOOSE d \in 0..9 : Digits[d + 1] = t[Len(t)])

\* A conversion that drops the sign of the group.
parseFloatUnsigned(t) == DigitsValue(SubSeq(t, 2, Len(t)))

\* parseFloat of a group the regex captured, a sign and four digits (never
\* NaN, so the isNaN branch is not taken).
parseFloat(t) ==
    IF t[1] = "-" THEN 0 - DigitsValue(SubSeq(t, 2, Len(t)))
    ELSE DigitsValue(SubSeq(t, 2, Len(t)))

\* What happens to one listed file: no file entry under its path, read() or
\* parseSector throw, parseSector returns nothing, or it returns a sector.
FileOutcomes == {"missing", "throws", "null", "ok"}

\* The .base and .aux files the map directories list.
SectorFiles == [stem : Stems, ext : {"base", "aux"}, outcome : FileOutcomes]

SectorListings == UNION {[1..k -> SectorFiles] : k \in 0..MaxSectorFiles}

\* The sector parseSector returns for a file of archive `from`: one item and
\* one node, with the uid 1 in a .base file and 2 in an .aux file.
parseSector(f, from) ==
    LET uid == IF f.ext = "base" THEN 1 ELSE 2
    IN  [items |-> {[uid |-> uid, from |-> from]},
         nodes |-> {[uid |-> uid, from |-> from]}]

\* map.set(key, value)
MapSet(m, key, value) ==
    [k \in DOMAIN m \cup {key} |-> IF k = key THEN value ELSE m[k]]

\* items.set(item.uid, {...item, sectorX, sectorY}) for each element.
RECURSIVE SetAll(_, _, _, _)
SetAll(m, elements, sectorX, sectorY) ==
    IF elements = {} THEN m
    ELSE LET e == CHOOSE x \in elements : TRUE
         IN  SetAll(MapSet(m, e.uid, [uid |-> e.uid, from |-> e.from,
                                      sectorX |-> sectorX, sectorY |-> sectorY]),
                    elements \ {e}, sectorX, sectorY)

EmptySector == [items |-> <<>>, nodes |-> <<>>]

\* A bar that stays where it is.
barStays(bar) == Append(bar, IF bar = <<>> THEN 0 ELSE bar[Len(bar)])

\* bar.increment(...): the values the bar has shown so far, and the next.
barIncrement(bar) == Append(bar, IF bar = <<>> THEN 1 ELSE bar[Len(bar)] + 1)

\* One iteration of the loop over baseFiles, from acc = [sectors, error, bar].
sectorFileStep(acc, f, from) ==
    IF ~sectorRegexTest(f.stem)
    THEN [acc EXCEPT !.error = TRUE, !.bar = barIncrement(@)]
    ELSE LET sectorX == parseFloat(SubSeq(f.stem, 4, 8))
             sectorY == parseFloat(SubSeq(f.stem, 9, 13))
             \* putIfAbsent(sectorKey, {items: new Map(), nodes: new Map()},
             \* sectors), before the try: the one place sectors gets a key
             put == IF f.stem \in DOMAIN acc.sectors THEN acc.sectors
                    ELSE MapSet(acc.sectors, f.stem, EmptySector)
             sector == parseSector(f, from)
         IN  CASE f.outcome = "missing" -> [acc EXCEPT !.bar = barIncrement(@)]
               [] f.outcome = "throws" ->
                    [sectors |-> put, error |-> TRUE, bar |-> barIncrement(acc.bar)]
               [] f.outcome = "null" ->
                    [sectors |-> put, error |-> acc.error, bar |-> barIncrement(acc.bar)]
               [] f.outcome = "ok" ->
                    [sectors |-> MapSet(put, f.stem,
                        [items |-> SetAll(put[f.stem].items, sector.items, sectorX, sectorY),
                         nodes |-> SetAll(put[f.stem].nodes, sector.nodes, sectorX, sectorY)]),
                     error |-> acc.error, bar |-> barIncrement(acc.bar)]

\* parseSectorFiles over the sector files the archive's map directories list
\* (the files of every map, in the order the loops visit them): the sectors
\* map and the error flag it returns, and the values its progress bar took.
RECURSIVE parseSectorFiles(_, _)
parseSectorFiles(listing, from) ==
    IF listing = <<>> THEN [sectors |-> <<>>, error |-> FALSE, bar |-> <<>>]
    ELSE sectorFileStep(parseSectorFiles(SubSeq(listing, 1, Len(listing) - 1), from),
                        listing[Len(listing)], from)

SectorInit == sec \in {[state |-> "listed", listing |-> l] : l \in SectorListings}

\* One call of parseSectorFiles on the entries of one archive.
ParseSectorFiles ==
    /\ sec.state = "listed"
    /\ sec' = [state |-> "returned", listing |-> sec.listing,
               result |-> parseSectorFiles(sec.listing, <<"mod", 1>>)]
    /\ UNCHANGED notSectorVars

\* ------------------------------------------------------------ parseMapFiles: the data

\* The locale keys and icon names the archives of the model supply.
LocaleKeys == {"city_name"}
IconNames == {"gas_ico"}

\* A sector file that parses and one that throws, both of the first sector key.
SectorFileOf(outcome) ==
    [stem |-> <<"s", "e", "c", "+", "0", "0", "0", "1", "-", "0", "0", "0", "2">>,
     ext |-> "base", outcome |-> outcome]

\* What the game archives hold: en_us strings, icons, sector files; or a file
\* that makes the first try block throw.
BaseContents ==
    [l10n : SUBSET LocaleKeys, icons : SUBSET IconNames,
     listing : {<<>>, <<SectorFileOf("ok")>>}, throws : {"none"}]
    \cup {[l10n |-> {}, icons |-> {}, listing |-> <<>>, throws |-> "base"]}

\* What a mod archive holds; parseEntries or an icon file may throw.
ModContents ==
    [l10n : SUBSET LocaleKeys, icons : SUBSET IconNames,
     listing : {<<>>, <<SectorFileOf("ok")>>, <<SectorFileOf("throws")>>},
     throws : {"none"}]
    \cup [l10n : {LocaleKeys}, icons : {{}}, listing : {<<>>},
          throws : {"parseEntries", "icons"}]

\* The combined entries of the game archives, as the origin of a value.
GameLayer == <<"game", 0>>

\* parseLocaleFiles(entries).get('en_us') ?? new Map(): the strings of the
\* archive, each valued by the archive it comes from.
parseLocaleFiles(content, from) == [k \in content.l10n |-> from]

\* parseIconMatFiles(entries): the icons of the archive.
parseIconMatFiles(content, from) == [k \in content.icons |-> from]

\* A merge that keeps the value a key already has.
SetEachKeepExisting(to, from) ==
    [k \in DOMAIN to \cup DOMAIN from |-> IF k \in DOMAIN to THEN to[k] ELSE from[k]]

\* from.forEach((v, k) => to.set(k, v))
SetEach(to, from) ==
    [k \in DOMAIN to \cup DOMAIN from |-> IF k \in DOMAIN from THEN from[k] ELSE to[k]]

\* A label that is 'usa' unless the application is 'ats'.
MapLabelSwapped(app) == IF app = "ats" THEN "europe" ELSE "usa"

\* version.application === 'ats' ? 'usa' : 'europe'
MapLabel(app) == IF app = "ats" THEN "usa" ELSE "europe"

LayerInit ==
    /\ pc = "baseTry"
    /\ gameFilePaths = 1
    /\ modFilePaths \in 0..MaxMods
    /\ onlyDefs \in BOOLEAN
    /\ gameArchives = 1
    /\ modArchives = modFilePaths
    /\ closeCount = [a \in ArchiveIds |-> 0]
    /\ pending = "none"
    /\ thrownBy = "none"
    /\ modIndex = 1
    /\ modResult = [i \in 1..MaxMods |-> "pending"]
    /\ success = 0
    /\ failure = 0
    /\ uses = {}
    /\ application \in {"ats", "eut2"}
    /\ l10n = <<>>
    /\ icons = <<>>
    /\ sectorData = [sectors |-> <<>>]
    /\ supplied = <<>>
    /\ calls = [parseIconMatFiles |-> 0, parseSectorFiles |-> 0]
    /\ result = [state |-> "none"]

\* The first try block and its finally, with what the game archives hold.
BaseLayer ==
    /\ pc = "baseTry"
    /\ \E content \in BaseContents :
        /\ supplied' = <<content>>
        /\ IF content.throws = "base"
           THEN /\ pc' = "thrown"
                /\ thrownBy' = "base"
                /\ UNCHANGED <<l10n, icons, sectorData, calls>>
           ELSE /\ pc' = "modLoop"
                /\ UNCHANGED thrownBy
                /\ l10n' = parseLocaleFiles(content, GameLayer)
                /\ IF onlyDefs
                   THEN UNCHANGED <<icons, sectorData, calls>>
                   ELSE /\ icons' = parseIconMatFiles(content, GameLayer)
                        /\ sectorData' =
                             [sectors |-> parseSectorFiles(content.listing, GameLayer).sectors]
                        /\ calls' = [parseIconMatFiles |-> calls.parseIconMatFiles + 1,
                                     parseSectorFiles |-> calls.parseSectorFiles + 1]
    /\ uses' = uses \cup {use(a) : a \in baseTryArchives}
    /\ closeCount' = disposeAllGame(closeCount)
    /\ UNCHANGED <<gameFilePaths, modFilePaths, onlyDefs, gameArchives, modArchives,
                   pending, modIndex, modResult, success, failure, application, result>>
    /\ UNCHANGED notLayerVars

\* One iteration of the mod loop, with what the mod archive holds: the try
\* block, the catch, the finally.
ModLayer ==
    /\ pc = "modLoop"
    /\ modIndex <= modArchives
    /\ \E content \in ModContents :
        LET from == <<"mod", modIndex>>
            modSectorData == parseSectorFiles(content.listing, from)
            outcome == IF content.throws # "none" THEN "threw"
                       ELSE IF ~onlyDefs /\ modSectorData.error THEN "sectorError"
                       ELSE "ok"
        IN  /\ onlyDefs => content.throws # "icons"
            /\ supplied' = Append(supplied, content)
            /\ l10n' = IF content.throws = "parseEntries" THEN l10n
                       ELSE SetEach(l10n, parseLocaleFiles(content, from))
            /\ IF onlyDefs \/ content.throws = "parseEntries"
               THEN UNCHANGED <<icons, sectorData, calls>>
               ELSE IF content.throws = "icons"
               THEN /\ calls' = [calls EXCEPT !.parseIconMatFiles = @ + 1]
                    /\ UNCHANGED <<icons, sectorData>>
               ELSE /\ icons' = SetEach(icons, parseIconMatFiles(content, from))
                    /\ sectorData' =
                         [sectors |-> SetEach(sectorData.sectors, modSectorData.sectors)]
                    /\ calls' = [parseIconMatFiles |-> calls.parseIconMatFiles + 1,
                                 parseSectorFiles |-> calls.parseSectorFiles + 1]
            /\ modResult' = [modResult EXCEPT ![modIndex] = outcome]
            /\ success' = IF outcome = "ok" /\ ~onlyDefs THEN success + 1 ELSE success
            /\ failure' = IF outcome # "ok" THEN failure + 1 ELSE failure
    /\ uses' = uses \cup {use(a) : a \in modTryArchives(modIndex)}
    /\ closeCount' = dispose(closeCount, <<"mod", modIndex>>)
    /\ modIndex' = modIndex + 1
    /\ UNCHANGED <<pc, gameFilePaths, modFilePaths, onlyDefs, gameArchives, modArchives,
                   pending, thrownBy, application, result>>
    /\ UNCHANGED notLayerVars

\* After the loop: the object returned; postProcess may throw.
LayerReturn ==
    /\ pc = "modLoop"
    /\ modIndex > modArchives
    /\ \E threw \in BOOLEAN :
        IF threw /\ ~onlyDefs
        THEN /\ pc' = "thrown"
             /\ thrownBy' = "postProcess"
             /\ UNCHANGED result
        ELSE /\ pc' = "returned"
             /\ UNCHANGED thrownBy
             /\ result' =
                  IF onlyDefs
                  THEN [onlyDefs |-> TRUE, map |-> MapLabel(application),
                        defData |-> [l10n |-> l10n]]
                  ELSE [onlyDefs |-> FALSE, map |-> MapLabel(application),
                        mapData |-> [l10n |-> l10n, sectors |-> sectorData.sectors],
                        icons |-> icons]
    /\ UNCHANGED <<gameFilePaths, modFilePaths, onlyDefs, gameArchives, modArchives,
                   closeCount, pending, modIndex, modResult, success, failure, uses,
                   application, l10n, icons, sectorData, supplied, calls>>
    /\ UNCHANGED notLayerVars

\* ------------------------------------------------------------ postProcess

\* nodesByUid, the node index built from the sectors: five nodes. Node 3 is
\* at distance 1 from node 1, node 4 at distance 1 from node 2, node 5 at
\* distance 2 from node 1. No node has the uid MissingNode.
nodesByUid ==
    [uid \in 1..5 |->
        [uid |-> uid,
         x |-> CASE uid = 1 -> 0 [] uid = 2 -> 10 [] uid = 3 -> 1 [] uid = 4 -> 10 [] uid = 5 -> 2,
         y |-> IF uid = 4 THEN 1 ELSE 0]]

MissingNode == 9

\* defData and icons: the tokens the definition files and icon files define.
\* A prefab description is its spawn point types.
defData ==
    [roadLooks |-> {"look1"},
     prefabs |-> [t \in {"pf_company", "pf_plain"} |->
                    [spawnPoints |-> IF t = "pf_company" THEN <<"GasPos", "CompanyPos">>
                                     ELSE <<"GasPos">>]],
     ferries |-> {"ferry1", "ferry2", "ferry3"},
     ferryConnections |-> [t \in {"ferry1", "ferry2", "ferry3"} |->
                             CASE t = "ferry1" -> <<"ferry2", "ferry3">>
                               [] t = "ferry2" -> <<"ferry1">>
                               [] t = "ferry3" -> <<>>],
     cities |-> {"city1"},
     models |-> {"bld1"},
     vegetation |-> {"veg1"},
     companies |-> [t \in {"comp1"} |-> [name |-> "Company One"]]]

iconNames == {"comp1", "comp3"}

\* The uid of the item at position i of a world's item list.
ItemUid(i) == 100 + i

\* The items the sector files of the model hold, by type, with references
\* that resolve and references that do not.
ItemCatalogue ==
    {[type |-> "City", token |-> "city1"]}
    \cup {[type |-> "Road", roadLookToken |-> "look1", startNodeUid |-> 1, endNodeUid |-> 2],
          [type |-> "Road", roadLookToken |-> "lookX", startNodeUid |-> MissingNode,
           endNodeUid |-> 2]}
    \cup {[type |-> "Prefab", token |-> "pf_company", nodeUids |-> <<1, 2>>],
          [type |-> "Prefab", token |-> "pf_plain", nodeUids |-> <<1, MissingNode>>],
          [type |-> "Prefab", token |-> "pf_none", nodeUids |-> <<1, 2>>]}
    \cup {[type |-> "MapArea", nodeUids |-> <<2, MissingNode>>]}
    \cup [type : {"MapOverlay"}, nodeUid : {3, MissingNode}]
    \cup {[type |-> "Ferry", token |-> "ferry1", nodeUid |-> 4],
          [type |-> "Ferry", token |-> "ferryX", nodeUid |-> 4],
          [type |-> "Ferry", token |-> "ferry1", nodeUid |-> MissingNode],
          [type |-> "Ferry", token |-> "ferry2", nodeUid |-> 3],
          [type |-> "Ferry", token |-> "ferry2", nodeUid |-> MissingNode]}
    \cup [type : {"Company"}, token : {"comp1", "comp2", "comp3"}, cityToken : {"city1"},
          nodeUid : {5, MissingNode}, prefabUid : {ItemUid(1), 999}]
    \cup [type : {"Cutscene"}, nodeUid : {3, MissingNode}]
    \cup {[type |-> "Trigger", nodeUids |-> <<4, MissingNode>>]}
    \cup [type : {"Model"}, token : {"bld1", "veg1", "tree1"}, nodeUid : {5}]
    \cup {[type |-> "Terrain", startNodeUid |-> 3, endNodeUid |-> 4]}
    \cup [type : {"Building"}, scheme : {"scheme20", "scheme01"},
          startNodeUid : {3}, endNodeUid : {4}]
    \cup {[type |-> "Curve", model |-> "0i03a", startNodeUid |-> 4, endNodeUid |-> MissingNode],
          [type |-> "Curve", model |-> "0i99z", startNodeUid |-> 3, endNodeUid |-> 4]}
    \cup {[type |-> "TrajectoryItem", nodeUids |-> <<5>>]}
    \cup {[type |-> "Sign"]}

\* An item of a sector: a catalogue item under the uid of its position.
Placed(item, i, sector) == [uid |-> ItemUid(i), sector |-> sector, item |-> item]

\* A world postProcess is run on for its item passes: the chosen items, of
\* any type, in one sector.
ItemWorld(choice) == [i \in DOMAIN choice |-> Placed(choice[i], i, "A")]

\* itemsByUid.values(): the items of the sectors, sector by sector.
itemsByUid(w) ==
    SelectSeq(w, LAMBDA p : p.sector = "A") \o SelectSeq(w, LAMBDA p : p.sector = "B")

\* An add that does not look for the uid first.
SetAddAlways(set, uid) == Append(set, uid)

\* set.add(uid), the set kept in insertion order.
SetAdd(set, uid) == IF \E i \in DOMAIN set : set[i] = uid THEN set ELSE Append(set, uid)

RECURSIVE SetAddAll(_, _)
SetAddAll(set, uids) ==
    IF uids = <<>> THEN set ELSE SetAddAll(SetAdd(set, Head(uids)), Tail(uids))

\* checkReference: the warnings it logs, one per reference the store lacks.
checkReference(refs, store) == Cardinality({i \in DOMAIN refs : refs[i] \notin store})

\* A switch without the cases of Terrain, Building and Curve.
ItemTypesWithoutElevationOnly ==
    {"City", "Road", "Prefab", "MapArea", "MapOverlay", "Ferry", "Company", "Cutscene",
     "Trigger", "Model", "TrajectoryItem"}

\* The cases of the switch on item.type; any other type reaches the default.
ItemTypes ==
    {"City", "Road", "Prefab", "MapArea", "MapOverlay", "Ferry", "Company", "Cutscene",
     "Trigger", "Model", "Terrain", "Building", "Curve", "TrajectoryItem"}

\* The state of the reference check before its first item.
CheckStart ==
    [threw |-> FALSE, warnings |-> 0, classified |-> <<>>,
     referencedNodeUids |-> <<>>, elevationNodeUids |-> <<>>,
     prefabsByUid |-> <<>>, poifulItems |-> <<>>, ferryItems |-> <<>>]

\* The body of the loop over itemsByUid.values() for one item: the case of
\* its type, or the default, which throws.
checkItem(acc, p) ==
    LET it == p.item
        nodes == DOMAIN nodesByUid
        done == [acc EXCEPT !.classified = Append(@, p.uid)]
    IN  IF it.type \notin ItemTypes THEN [acc EXCEPT !.threw = TRUE]
        ELSE CASE it.type = "City" -> done
          [] it.type = "Road" ->
               [done EXCEPT
                  !.warnings = @ + checkReference(<<it.roadLookToken>>, defData.roadLooks)
                                 + checkReference(<<it.startNodeUid>>, nodes)
                                 + checkReference(<<it.endNodeUid>>, nodes),
                  !.referencedNodeUids = SetAddAll(@, <<it.startNodeUid, it.endNodeUid>>),
                  !.elevationNodeUids = SetAddAll(@, <<it.startNodeUid, it.endNodeUid>>)]
          [] it.type = "Prefab" ->
               [done EXCEPT
                  !.warnings = @ + checkReference(<<it.token>>, DOMAIN defData.prefabs)
                                 + checkReference(it.nodeUids, nodes),
                  !.referencedNodeUids = SetAddAll(@, it.nodeUids),
                  !.elevationNodeUids = SetAddAll(@, it.nodeUids),
                  !.prefabsByUid = MapSet(@, p.uid, p),
                  !.poifulItems = Append(@, p)]
          [] it.type = "MapArea" ->
               [done EXCEPT
                  !.warnings = @ + checkReference(it.nodeUids, nodes),
                  !.referencedNodeUids = SetAddAll(@, it.nodeUids),
                  !.elevationNodeUids = SetAddAll(@, it.nodeUids)]
          [] it.type = "MapOverlay" ->
               [done EXCEPT
                  !.warnings = @ + checkReference(<<it.nodeUid>>, nodes),
                  !.referencedNodeUids = SetAdd(@, it.nodeUid),
                  !.poifulItems = Append(@, p)]
          [] it.type = "Ferry" ->
               LET checked == [done EXCEPT
                      !.warnings = @ + checkReference(<<it.nodeUid>>, nodes)
                                     + checkReference(<<it.token>>, defData.ferries)]
               IN  IF it.token \in defData.ferries
                   THEN [checked EXCEPT
                           !.referencedNodeUids = SetAdd(@, it.nodeUid),
                           !.ferryItems = MapSet(@, it.token, p),
                           !.poifulItems = Append(@, p)]
                   ELSE checked
          [] it.type = "Company" ->
               [done EXCEPT
                  !.warnings = @ + checkReference(<<it.nodeUid>>, nodes)
                                 + checkReference(<<it.token>>, iconNames)
                                 + checkReference(<<it.cityToken>>, defData.cities),
                  !.referencedNodeUids = SetAdd(@, it.nodeUid),
                  !.poifulItems = Append(@, p)]
          [] it.type = "Cutscene" ->
               [done EXCEPT
                  !.warnings = @ + checkReference(<<it.nodeUid>>, nodes),
                  !.referencedNodeUids = SetAdd(@, it.nodeUid),
                  !.poifulItems = Append(@, p)]
          [] it.type = "Trigger" ->
               [done EXCEPT
                  !.warnings = @ + checkReference(it.nodeUids, nodes),
                  !.referencedNodeUids = SetAddAll(@, it.nodeUids),
                  !.poifulItems = Append(@, p)]
          [] it.type = "Model" ->
               IF it.token \notin defData.models
               THEN IF it.token \in defData.vegetation
                    THEN [done EXCEPT !.elevationNodeUids = SetAdd(@, it.nodeUid)]
                    ELSE done
               ELSE [done EXCEPT
                       !.warnings = @ + checkReference(<<it.nodeUid>>, nodes),
                       !.referencedNodeUids = SetAdd(@, it.nodeUid)]
          [] it.type \in {"Terrain", "Building", "Curve"} ->
               [done EXCEPT
                  !.elevationNodeUids = SetAddAll(@, <<it.startNodeUid, it.endNodeUid>>)]
          [] it.type = "TrajectoryItem" ->
               [done EXCEPT
                  !.warnings = @ + checkReference(it.nodeUids, nodes),
                  !.referencedNodeUids = SetAddAll(@, it.nodeUids)]

\* The loop over itemsByUid.values(); a throw ends it.
RECURSIVE checkItems(_)
checkItems(items) ==
    IF items = <<>> THEN CheckStart
    ELSE LET before == checkItems(SubSeq(items, 1, Len(items) - 1))
         IN  IF before.threw THEN before ELSE checkItem(before, items[Len(items)])

\* toMapPosition(...) of a spawn point: the prefab library's projection into
\* map space, here a position that no node has.
toMapPosition == [x |-> 50, y |-> 50]

PoiStart ==
    [companyPois |-> <<>>, companies |-> <<>>,
     noPoiCompanies |-> <<>>, fallbackPoiCompanies |-> <<>>]

\* A search that takes the first spawn point, whatever its type.
firstSpawnPos(description) == description.spawnPoints # <<>>

\* spawnPoints.find(p => p.type === SpawnPointType.CompanyPos) finds one.
companySpawnPos(description) ==
    \E i \in DOMAIN description.spawnPoints : description.spawnPoints[i] = "CompanyPos"

\* case ItemType.Company of the loop over poifulItems.
companyCase(out, p, prefabsByUid) ==
    LET it == p.item
        bucket == [token |-> it.token, itemUid |-> p.uid, nodeUid |-> it.nodeUid]
        emit(o, pos) ==
            [o EXCEPT
               !.companyPois = Append(@,
                   [type |-> "company", icon |-> it.token, x |-> pos.x, y |-> pos.y,
                    label |-> IF it.token \in DOMAIN defData.companies
                              THEN defData.companies[it.token].name ELSE it.token]),
               !.companies = Append(@,
                   [uid |-> p.uid, token |-> it.token, x |-> pos.x, y |-> pos.y])]
    IN  IF it.prefabUid \notin DOMAIN prefabsByUid THEN out
        ELSE IF it.token \notin iconNames
        THEN [out EXCEPT !.noPoiCompanies = Append(@, bucket)]
        ELSE IF prefabsByUid[it.prefabUid].item.token \notin DOMAIN defData.prefabs THEN out
        ELSE LET description == defData.prefabs[prefabsByUid[it.prefabUid].item.token]
                 fallback == [out EXCEPT !.fallbackPoiCompanies = Append(@, bucket)]
             IN  IF companySpawnPos(description)
                 THEN emit(out, toMapPosition)
                 ELSE IF it.nodeUid \notin DOMAIN nodesByUid THEN fallback
                 ELSE emit(fallback, nodesByUid[it.nodeUid])

\* The loop over poifulItems, for what its Company case pushes.
RECURSIVE companyItems(_, _)
companyItems(poifulItems, prefabsByUid) ==
    IF poifulItems = <<>> THEN PoiStart
    ELSE LET before == companyItems(SubSeq(poifulItems, 1, Len(poifulItems) - 1), prefabsByUid)
             p == poifulItems[Len(poifulItems)]
         IN  IF p.item.type = "Company" THEN companyCase(before, p, prefabsByUid) ELSE before

\* defData.ferries in the order the loop visits its tokens.
ferryTokens == <<"ferry1", "ferry2", "ferry3">>

\* One connection of a ferry after augmentation: the node uid of the ferry
\* item of its token, and that node's position, or (0, 0) without the node.
ferryConnection(token, ferryItems) ==
    LET nodeUid == ferryItems[token].item.nodeUid
    IN  [token |-> token, nodeUid |-> nodeUid,
         x |-> IF nodeUid \in DOMAIN nodesByUid THEN nodesByUid[nodeUid].x ELSE 0,
         y |-> IF nodeUid \in DOMAIN nodesByUid THEN nodesByUid[nodeUid].y ELSE 0]

\* The loop over defData.ferries: a ferry is pushed when its token has a
\* ferry item and the item's node exists, with the connections whose token
\* has a ferry item.
RECURSIVE ferriesOut(_, _)
ferriesOut(tokens, ferryItems) ==
    IF tokens = <<>> THEN <<>>
    ELSE LET token == Head(tokens)
             rest == ferriesOut(Tail(tokens), ferryItems)
         IN  IF token \notin DOMAIN ferryItems THEN rest
             ELSE IF ferryItems[token].item.nodeUid \notin DOMAIN nodesByUid THEN rest
             ELSE LET node == nodesByUid[ferryItems[token].item.nodeUid]
                      kept == SelectSeq(defData.ferryConnections[token],
                                        LAMBDA c : c \in DOMAIN ferryItems)
                  IN  <<[token |-> token, nodeUid |-> node.uid, x |-> node.x, y |-> node.y,
                         connections |->
                            [k \in DOMAIN kept |-> ferryConnection(kept[k], ferryItems)]]>>
                      \o rest

threshold == 2

\* distance(a, b) < t for the Euclidean distance of two nodes.
distanceBelow(a, b, t) ==
    (a.x - b.x) * (a.x - b.x) + (a.y - b.y) * (a.y - b.y) < t * t

\* A test that matches a divider start to start and end to end only.
splitsRoadOneWay(r, t) ==
    /\ t.item.startNodeUid \in DOMAIN nodesByUid
    /\ t.item.endNodeUid \in DOMAIN nodesByUid
    /\ distanceBelow(nodesByUid[r.item.startNodeUid], nodesByUid[t.item.startNodeUid], threshold)
    /\ distanceBelow(nodesByUid[r.item.endNodeUid], nodesByUid[t.item.endNodeUid], threshold)

\* splitsRoad, for a road r whose two nodes exist.
splitsRoad(r, t) ==
    /\ t.item.startNodeUid \in DOMAIN nodesByUid
    /\ t.item.endNodeUid \in DOMAIN nodesByUid
    /\ LET rStart == nodesByUid[r.item.startNodeUid]
           rEnd == nodesByUid[r.item.endNodeUid]
           tStart == nodesByUid[t.item.startNodeUid]
           tEnd == nodesByUid[t.item.endNodeUid]
       IN  \/ distanceBelow(rStart, tStart, threshold) /\ distanceBelow(rEnd, tEnd, threshold)
           \/ distanceBelow(rStart, tEnd, threshold) /\ distanceBelow(rEnd, tStart, threshold)

\* The items a sector's scan keeps as dividers.
isSectorDivider(p) ==
    \/ p.item.type = "Terrain"
    \/ p.item.type = "Building" /\ p.item.scheme = "scheme20"
    \/ p.item.type = "Curve" /\ p.item.model \in {"0i03a", "0i03b"}

RECURSIVE dividerNodeUids(_)
dividerNodeUids(dividers) ==
    IF dividers = <<>> THEN <<>>
    ELSE <<Head(dividers).item.startNodeUid, Head(dividers).item.endNodeUid>>
         \o dividerNodeUids(Tail(dividers))

\* The roads a sector pushes: those whose two nodes exist, flagged or not.
RECURSIVE sectorRoadsOut(_, _)
sectorRoadsOut(sectorRoads, sectorDividers) ==
    IF sectorRoads = <<>> THEN <<>>
    ELSE LET r == Head(sectorRoads)
             rest == sectorRoadsOut(Tail(sectorRoads), sectorDividers)
         IN  IF r.item.startNodeUid \notin DOMAIN nodesByUid
                \/ r.item.endNodeUid \notin DOMAIN nodesByUid
             THEN rest
             ELSE <<[uid |-> r.uid,
                     maybeDivided |-> \E i \in DOMAIN sectorDividers :
                                         splitsRoad(r, sectorDividers[i])]>> \o rest

\* One iteration of the loop over sectors.entries(): the sector's roads and
\* dividers, the dividers kept so far and their nodes, the roads pushed.
sectorScan(acc, w, key) ==
    LET items == SelectSeq(w, LAMBDA p : p.sector = key)
        sectorRoads == SelectSeq(items, LAMBDA p : p.item.type = "Road")
        sectorDividers == SelectSeq(items, isSectorDivider)
        dividers == acc.dividers \o SelectSeq(sectorDividers, LAMBDA p : p.item.type # "Terrain")
    IN  [dividers |-> dividers,
         referencedNodeUids |-> SetAddAll(acc.referencedNodeUids, dividerNodeUids(dividers)),
         roads |-> acc.roads \o sectorRoadsOut(sectorRoads, sectorDividers)]

\* postProcess over the items of world w: what it throws or returns (the node
\* array, the roads, the dividers, and what the Company case pushed).
postProcess(w) ==
    LET check == checkItems(itemsByUid(w))
    IN  IF check.threw THEN [threw |-> TRUE, classified |-> check.classified]
        ELSE LET poi == companyItems(check.poifulItems, check.prefabsByUid)
                 scanA == sectorScan([dividers |-> <<>>,
                                      referencedNodeUids |-> check.referencedNodeUids,
                                      roads |-> <<>>], w, "A")
                 scan == sectorScan(scanA, w, "B")
                 present == SelectSeq(scan.referencedNodeUids,
                                      LAMBDA uid : uid \in DOMAIN nodesByUid)
             IN  [threw |-> FALSE,
                  classified |-> check.classified,
                  warnings |-> check.warnings,
                  nodes |-> [i \in DOMAIN present |-> nodesByUid[present[i]]],
                  roads |-> scan.roads,
                  dividers |-> scan.dividers,
                  companyPois |-> poi.companyPois,
                  companies |-> poi.companies,
                  noPoiCompanies |-> poi.noPoiCompanies,
                  fallbackPoiCompanies |-> poi.fallbackPoiCompanies,
                  ferries |-> ferriesOut(ferryTokens, check.ferryItems)]

\* The dividers and look-alikes of the worlds of the road scan: near the ends
\* of the road in either orientation, with an end at the threshold, with a
\* missing node; in the road's sector or in another.
DividerCatalogue ==
    [type : {"Terrain"}, startNodeUid : {3, 4}, endNodeUid : {3, 4}]
    \cup {[type |-> "Terrain", startNodeUid |-> 5, endNodeUid |-> 4],
          [type |-> "Terrain", startNodeUid |-> 3, endNodeUid |-> MissingNode]}
    \cup {[type |-> "Building", scheme |-> "scheme20", startNodeUid |-> 3, endNodeUid |-> 4],
          [type |-> "Building", scheme |-> "scheme20", startNodeUid |-> 4, endNodeUid |-> 3]}
    \cup {[type |-> "Curve", model |-> "0i03a", startNodeUid |-> 3, endNodeUid |-> 4],
          [type |-> "Curve", model |-> "0i03b", startNodeUid |-> 4, endNodeUid |-> 3]}
    \cup {[type |-> "Building", scheme |-> "scheme01", startNodeUid |-> 3, endNodeUid |-> 4],
          [type |-> "Curve", model |-> "0i99z", startNodeUid |-> 3, endNodeUid |-> 4]}

\* A world of the road scan: one road from node 1 to roadEnd in sector A,
\* followed by the chosen items, each in its sector.
RoadWorld(roadEnd, choice, where) ==
    <<Placed([type |-> "Road", roadLookToken |-> "look1",
              startNodeUid |-> 1, endNodeUid |-> roadEnd], 1, "A")>>
      \o [i \in DOMAIN choice |-> Placed(choice[i], i + 1, where[i])]

PostInit(w) ==
    /\ world = w
    /\ post = [state |-> "ready"]
    /\ mileage = [state |-> "idle"]

\* One call of postProcess.
PostProcess ==
    /\ post.state = "ready"
    /\ post' = [state |-> "done", out |-> postProcess(world)]
    /\ UNCHANGED <<world, mileage>>
    /\ UNCHANGED notPostVars

\* A property of a mileage target that may be absent.
Absent == [has |-> FALSE, v |-> 0]

Present(v) == [has |-> TRUE, v |-> v]

\* The mileage targets of the model: x and y absent, 0 or another number;
\* nodeUid absent, 0n, the uid of a node or a uid no node has.
MileageTargets ==
    [x : {Absent, Present(0), Present(7)},
     y : {Absent, Present(0), Present(7)},
     nodeUid : {Absent, Present(0), Present(3), Present(MissingNode)}]

\* The value is truthy: present, and not 0 (or 0n).
Truthy(p) == p.has /\ p.v # 0

\* Math.round(v * 100) / 100, for the whole numbers the model's nodes have
\* as coordinates.
roundToHundredths(v) == ((2 * (v * 100) + 1) \div 2) \div 100

\* The body of the loop over defData.mileageTargets for one target: what
\* the map holds for its token afterwards.
augmentTarget(target) ==
    IF (Truthy(target.x) /\ Truthy(target.y)) \/ ~Truthy(target.nodeUid) THEN target
    ELSE IF target.nodeUid.v \notin DOMAIN nodesByUid THEN target
    ELSE [x |-> Present(roundToHundredths(nodesByUid[target.nodeUid.v].x)),
          y |-> Present(roundToHundredths(nodesByUid[target.nodeUid.v].y)),
          nodeUid |-> Absent]

MileageInit(targets) ==
    /\ world = <<>>
    /\ post = [state |-> "idle"]
    /\ mileage = [state |-> "ready", targets |-> targets]

\* The loop of postProcess over defData.mileageTargets.
AugmentMileageTargets ==
    /\ mileage.state = "ready"
    /\ mileage' = [state |-> "done", targets |-> mileage.targets,
                   out |-> [k \in DOMAIN mileage.targets |-> augmentTarget(mileage.targets[k])]]
    /\ UNCHANGED <<world, post>>
    /\ UNCHANGED notPostVars

\* ------------------------------------------------------------ idle states

MapIdle ==
    /\ pc = "idle"
    /\ gameFilePaths = 0
    /\ modFilePaths = 0
    /\ onlyDefs = FALSE
    /\ gameArchives = 0
    /\ modArchives = 0
    /\ closeCount = [a \in ArchiveIds |-> 0]
    /\ pending = "none"
    /\ thrownBy = "none"
    /\ modIndex = 1
    /\ modResult = [i \in 1..MaxMods |-> "pending"]
    /\ success = 0
    /\ failure = 0
    /\ uses = {}

ArchiveIdle ==
    /\ file = [header |-> [magic |-> "", version |-> 0, salt |-> 0, hashMethod |-> ""],
               entryTable |-> <<>>, metadataTable |-> <<>>]
    /\ entries = NoEntries
    /\ parseLog = <<>>
    /\ lastOp = [op |-> "none"]

ReadIdle == rd = [state |-> "idle"]

SectorIdle == sec = [state |-> "idle"]

PostIdle ==
    /\ world = <<>>
    /\ post = [state |-> "idle"]
    /\ mileage = [state |-> "idle"]

LayerIdle ==
    /\ application = ""
    /\ l10n = <<>>
    /\ icons = <<>>
    /\ sectorData = [sectors |-> <<>>]
    /\ supplied = <<>>
    /\ calls = [parseIconMatFiles |-> 0, parseSectorFiles |-> 0]
    /\ result = [state |-> "none"]

\* ------------------------------------------------------------ specifications

Init == MapInit /\ ArchiveIdle /\ ReadIdle /\ SectorIdle /\ LayerIdle /\ PostIdle

Next ==
    \/ OpenGame
    \/ OpenMod
    \/ BaseTry
    \/ BaseFinally
    \/ ModTry
    \/ ModFinally
    \/ Finish

\* One run of parseMapFiles.
Spec == Init /\ [][Next]_vars

InitArchive == MapIdle /\ ArchiveInit /\ ReadIdle /\ SectorIdle /\ LayerIdle /\ PostIdle

NextArchive ==
    \/ ParseEntries
    \/ Get
    \/ Read

\* One ScsArchiveV2 over one file.
SpecArchive == InitArchive /\ [][NextArchive]_vars

TableInit ==
    /\ file \in TableFiles
    /\ entries = NoEntries
    /\ parseLog = <<>>
    /\ lastOp = [op |-> "none"]

InitTable == MapIdle /\ TableInit /\ ReadIdle /\ SectorIdle /\ LayerIdle /\ PostIdle

NextTable == ParseEntries

\* parseEntries over entry tables of every shape.
SpecTable == InitTable /\ [][NextTable]_vars

InitRead == MapIdle /\ ArchiveIdle /\ ReadInit /\ SectorIdle /\ LayerIdle /\ PostIdle

NextRead == ReadEntry

\* One entry's read().
SpecRead == InitRead /\ [][NextRead]_vars

InitSectors == MapIdle /\ ArchiveIdle /\ ReadIdle /\ SectorInit /\ LayerIdle /\ PostIdle

NextSectors == ParseSectorFiles

\* One call of parseSectorFiles.
SpecSectors == InitSectors /\ [][NextSectors]_vars

InitLayers == LayerInit /\ ArchiveIdle /\ ReadIdle /\ SectorIdle /\ PostIdle

NextLayers ==
    \/ BaseLayer
    \/ ModLayer
    \/ LayerReturn

\* One run of parseMapFiles over archives that opened, with what they hold.
SpecLayers == InitLayers /\ [][NextLayers]_vars

\* Up to MaxItems items of the catalogue.
InitPost ==
    \E k \in 0..MaxItems : \E choice \in [1..k -> ItemCatalogue] :
        /\ MapIdle /\ ArchiveIdle /\ ReadIdle /\ SectorIdle /\ LayerIdle
        /\ PostInit(ItemWorld(choice))

NextPost == PostProcess

\* One call of postProcess over items of every type.
SpecPost == InitPost /\ [][NextPost]_vars

\* One road, to a node that exists or to one that does not, and up to
\* MaxDividers items of the divider catalogue, in the road's sector or not.
InitRoads ==
    \E k \in 0..MaxDividers, roadEnd \in {2, MissingNode} :
      \E choice \in [1..k -> DividerCatalogue], where \in [1..k -> {"A", "B"}] :
        /\ MapIdle /\ ArchiveIdle /\ ReadIdle /\ SectorIdle /\ LayerIdle
        /\ PostInit(RoadWorld(roadEnd, choice, where))

\* One call of postProcess over a road and the items next to it.
SpecRoads == InitRoads /\ [][NextPost]_vars

\* Up to MaxTargets mileage targets.
InitMileage ==
    \E k \in 0..MaxTargets : \E targets \in [1..k -> MileageTargets] :
        /\ MapIdle /\ ArchiveIdle /\ ReadIdle /\ SectorIdle /\ LayerIdle
        /\ MileageInit(targets)

NextMileage == AugmentMileageTargets

\* postProcess, for what it does to the mileage targets.
SpecMileage == InitMileage /\ [][NextMileage]_vars

\* ------------------------------------------------------------ claims

Ended == pc \in {"returned", "thrown"}

\* C1: every archive that was opened has had dispose() called on it when
\* parseMapFiles has returned or thrown, whatever the exit path.
C1_EveryOpenedArchiveDisposed ==
    Ended => \A a \in OpenedArchives : closeCount[a] >= 1

\* C2: when parseMapFiles has returned normally, the descriptor of every
\* opened archive has been closed exactly once, and no other was closed.
C2_ClosedExactlyOnce ==
    pc = "returned" =>
        \A a \in ArchiveIds : closeCount[a] = IF a \in OpenedArchives THEN 1 ELSE 0

\* A normal return with game and mod archives opened and a mod whose try threw.
C2_Witness ==
    /\ pc = "returned"
    /\ gameArchives = MaxGame
    /\ modArchives = MaxMods
    /\ modResult[1] = "threw"

\* C3: an error of one mod (at its open, in parseEntries or in its files)
\* never makes parseMapFiles throw; it counts as one failure and every mod
\* given is processed.
C3_ModIsolation ==
    /\ thrownBy # "modOpen"
    /\ pc = "returned" =>
        /\ \A i \in 1..modFilePaths : modResult[i] # "pending"
        /\ failure = Cardinality({i \in 1..modFilePaths :
                                    modResult[i] \in {"threw", "sectorError"}})

Calls == DOMAIN parseLog

\* C4: isValid false: every call fails and nothing is cached. isValid true:
\* after a call that returned, every later call returns the same object and
\* reads no table; a call that failed leaves the cache empty and the next
\* call reads the tables again.
C4_ParseEntriesCached ==
    /\ ~isValid(file.header) =>
        /\ entries.obj = 0
        /\ \A i \in Calls : ~parseLog[i].ok /\ ~parseLog[i].reads
    /\ \A i, j \in Calls :
        (i < j /\ parseLog[i].ok) =>
            /\ parseLog[j].ok
            /\ parseLog[j].obj = parseLog[i].obj
            /\ ~parseLog[j].reads
    /\ \A i \in Calls :
        (isValid(file.header) /\ ~parseLog[i].ok) =>
            /\ i = Len(parseLog) => entries.obj = 0
            /\ i + 1 \in Calls => parseLog[i + 1].reads
    /\ \A i \in Calls : parseLog[i].ok => parseLog[i].obj # 0

\* A second call that returned the first call's object.
C4_Witness ==
    /\ Len(parseLog) >= 2
    /\ parseLog[1].ok
    /\ parseLog[2].ok
    /\ file.entryTable # <<>>

StoreOf(header) == IF header.isDirectory THEN "directories" ELSE "files"

\* C5: after parseEntries, for every entry E of the table and every path whose
\* salted hash is E's hash, the lookup of the path in the store of E's kind
\* returns E.
C5_LookupReturnsEntry ==
    entries.obj # 0 =>
        \A e \in DOMAIN file.entryTable, p \in Paths :
            hash_key(p, file.header.salt) = file.entryTable[e].hash =>
                StoreGet(entries[StoreOf(file.entryTable[e])], p).index = e

\* C6: parseEntries does not return for a table in which two entries have
\* the same hash.
C6_CollisionRejected ==
    entries.obj # 0 =>
        \A e1, e2 \in DOMAIN file.entryTable :
            file.entryTable[e1].hash = file.entryTable[e2].hash => e1 = e2

\* C7: a lookup, in either store, hashes the key itself when the header's
\* 16-bit salt is 0, and else the decimal text of the salt followed by the key.
C7_SaltRule ==
    lastOp.op = "get" =>
        lastOp.text = IF file.header.salt = 0 THEN lastOp.key
                      ELSE DecimalDigits(file.header.salt) \o lastOp.key

Tobj(class) == class = "ScsArchiveTobjFile"

U32At(b, off) == b[off + 1] + 256 * b[off + 2] + 65536 * b[off + 3] + 16777216 * b[off + 4]

\* C9: read() of a texture object with a payload of L bytes returns 148 + L
\* bytes: "DDS ", the 124-byte header with the descriptor's height, width and
\* mipmap count, pitchOrLinearSize L and fourCC "DX10" at offset 84, the DX10
\* extension at 128 with the format, array size 1 and the cubemap flag iff
\* bits 12-13 of the descriptor are not zero, and the payload at 148.
C9_TobjLayout ==
    (rd.state = "read" /\ Tobj(rd.class) /\ rd.result.ok) =>
        LET b == rd.result.bytes
            payload == read(rd.metadata, rd.disk).bytes
            n == rd.imageMetadata.image
        IN  /\ Len(b) = 148 + Len(payload)
            /\ SubSeq(b, 1, 4) = <<68, 68, 83, 32>>
            /\ U32At(b, 4) = 124
            /\ U32At(b, 12) = rd.imageMetadata.height + 1
            /\ U32At(b, 16) = rd.imageMetadata.width + 1
            /\ U32At(b, 20) = Len(payload)
            /\ U32At(b, 28) = 1 + (n % 16)
            /\ SubSeq(b, 85, 88) = <<68, 88, 49, 48>>
            /\ U32At(b, 128) = (n \div 16) % 256
            /\ U32At(b, 136) = (IF (n \div 4096) % 4 = 0 THEN 0 ELSE 4)
            /\ U32At(b, 140) = 1
            /\ SubSeq(b, 149, Len(b)) = payload

\* A texture object with only bit 13 of the cubemap bits set and a payload,
\* read.
C9_Witness ==
    /\ rd.state = "read"
    /\ Tobj(rd.class)
    /\ rd.result.ok
    /\ Len(rd.result.bytes) > 148
    /\ (rd.imageMetadata.image \div 4096) % 4 = 2

Unsupported == {ZLIB_HEADERLESS, ZSTD}

\* The entries of the file's table whose payload has an unsupported
\* compression tag, by the directory flag.
UnsupportedEntries(isDirectory) ==
    {e \in DOMAIN file.entryTable :
        /\ file.entryTable[e].isDirectory = isDirectory
        /\ \E i \in 0..file.entryTable[e].metadataCount - 1 :
            LET m == file.metadataTable[file.entryTable[e].metadataIndex + i + 1]
            IN  m.type \in PlainTypes /\ m.plain.compression \in Unsupported}

\* C10 as claimed: no parseEntries call throws for an entry of unsupported
\* compression, and read() of such an entry throws.
C10_UnsupportedAbortsOnlyEntry ==
    /\ \A i \in Calls : parseLog[i].error # "unsupported compression type"
    /\ (lastOp.op = "read" /\ lastOp.entry.metadata.compression \in Unsupported) =>
            ~lastOp.result.ok

\* The entry of the table a store holds for each hash of the entries of one type:
\* the last one in table order.
Held(type) ==
    {e \in DOMAIN file.entryTable :
        /\ file.entryTable[e].isDirectory = (type = "directory")
        /\ \A o \in DOMAIN file.entryTable :
            (/\ file.entryTable[o].isDirectory = file.entryTable[e].isDirectory
             /\ file.entryTable[o].hash = file.entryTable[e].hash) => o <= e}

\* C10: a file entry of unsupported compression aborts only its own read():
\* parseEntries throws "unsupported compression" only for a directory entry
\* with such a tag and returns when there is none (and no I/O fails), the
\* stores hold every entry they would hold otherwise, and read() throws for
\* exactly the entries with such a tag. A call that reads the tables of a file
\* with such a directory entry throws.
C10_UnsupportedFileAbortsOnlyEntry ==
    /\ \A i \in Calls :
        /\ parseLog[i].error = "unsupported compression type" => UnsupportedEntries(TRUE) # {}
        /\ (parseLog[i].reads /\ UnsupportedEntries(TRUE) = {} /\ parseLog[i].error # "io")
                => parseLog[i].ok
        /\ (parseLog[i].reads /\ UnsupportedEntries(TRUE) # {}) => ~parseLog[i].ok
    /\ entries.obj # 0 =>
        /\ {entries.files.map[h].index : h \in DOMAIN entries.files.map} = Held("file")
        /\ {entries.directories.map[h].index : h \in DOMAIN entries.directories.map}
                = Held("directory")
    /\ lastOp.op = "read" =>
        /\ lastOp.entry.metadata.compression \in Unsupported => ~lastOp.result.ok
        /\ lastOp.result.error = "unsupported compression type"
                => lastOp.entry.index \in UnsupportedEntries(FALSE)
        /\ entries.obj # 0

\* read() of a file entry of unsupported compression threw, in an archive
\* whose parseEntries returned and whose file store holds another entry.
C10_Witness ==
    /\ lastOp.op = "read"
    /\ lastOp.result.error = "unsupported compression type"
    /\ entries.obj # 0
    /\ Cardinality(DOMAIN entries.files.map) >= 2

\* The metadata header stored at index k of the file's metadata table.
HeaderAt(k) == file.metadataTable[k + 1]

InformativeTags == {1, 2, 128, 129, 132, 5, 6}
IgnoredTags == {3, 130, 131, 4}

UnknownTag == \E k \in Visited(file) : HeaderAt(k).type \notin InformativeTags \cup IgnoredTags

\* A plain descriptor whose compression nibble is none of 0..4.
UndecodableDescriptor ==
    \E k \in Visited(file) :
        /\ HeaderAt(k).type \in {128, 129, 132}
        /\ HeaderAt(k).plain.compression \notin 0..4

\* The calls of parseEntries that read both tables.
WalkCalls == {i \in Calls : parseLog[i].reads /\ parseLog[i].error # "io"}

\* What the walk of call i did with the headers: informative ones recorded
\* under metadataIndex + i, ignored ones not recorded, one warning at most.
WalkedAsStated(i) ==
    /\ parseLog[i].walked
    /\ parseLog[i].warnings <= 1
    /\ \A e \in DOMAIN file.entryTable :
         \A j \in 0..file.entryTable[e].metadataCount - 1 :
            LET k == file.entryTable[e].metadataIndex + j
            IN  /\ HeaderAt(k).type \in InformativeTags =>
                     /\ k \in DOMAIN parseLog[i].metadataMap
                     /\ parseLog[i].metadataMap[k] = HeaderAt(k)
                /\ HeaderAt(k).type \in IgnoredTags =>
                     k \notin DOMAIN parseLog[i].metadataMap

\* C11 (as stated): in every walk of the metadata headers, a header of type
\* IMG, SAMPLE, PLAIN, DIRECTORY, MIP_TAIL, PMA_INFO or PMG_INFO is recorded
\* under metadataIndex + i, a header of type MIP_PROXY, MIP_0, MIP_1 or
\* INLINE_DIRECTORY is not recorded and fails nothing, with one warning at
\* most per call; a header of any other type makes parseEntries fail with no
\* entries produced.
C11_WalkByTypeTag ==
    \A i \in WalkCalls :
        /\ ~UnknownTag => WalkedAsStated(i)
        /\ UnknownTag => ~parseLog[i].ok /\ entries.obj = 0

\* C11 (amended): the same when every plain descriptor of a walked header
\* decodes; a PLAIN, DIRECTORY or MIP_TAIL header whose descriptor holds a
\* compression nibble above 4 is not recorded and makes parseEntries fail with
\* no entries produced, like a header of unknown type.
C11_WalkByTypeTagAndDescriptor ==
    \A i \in WalkCalls :
        /\ (~UnknownTag /\ ~UndecodableDescriptor) => WalkedAsStated(i)
        /\ (UnknownTag \/ UndecodableDescriptor) =>
              /\ ~parseLog[i].walked
              /\ ~parseLog[i].ok
              /\ parseLog[i].metadataMap = <<>>
              /\ entries.obj = 0

\* A call that returned entries although it skipped a header, with its one
\* warning, and recorded the informative header next to it.
C11_Witness ==
    \E i \in WalkCalls :
        /\ parseLog[i].ok
        /\ parseLog[i].warnings = 1
        /\ \E k \in Visited(file) : HeaderAt(k).type = MIP_0
        /\ \E k \in DOMAIN parseLog[i].metadataMap : parseLog[i].metadataMap[k].type = PLAIN

\* The entry the stores hold that was made from entry header e, NoEntry when
\* neither store holds one (the paths of the tables are distinct).
Materialized(e) ==
    LET h == file.entryTable[e].hash
    IN  IF h \in DOMAIN entries.directories.map /\ entries.directories.map[h].index = e
        THEN entries.directories.map[h]
        ELSE IF h \in DOMAIN entries.files.map /\ entries.files.map[h].index = e
        THEN entries.files.map[h]
        ELSE NoEntry

\* C12: after a parseEntries that returned, an entry header with metadata
\* count 1 is a directory entry when its directory flag is set and a regular
\* file entry otherwise; one with count 3 is a texture-object file entry, and
\* no call returns when such a header has the directory flag set; a header
\* with any other count is materialized as no entry of any kind.
C12_MaterializationByCount ==
    entries.obj # 0 =>
        \A e \in DOMAIN file.entryTable :
            LET header == file.entryTable[e]
            IN  /\ (header.metadataCount = 1 /\ header.isDirectory) =>
                     /\ Materialized(e) # NoEntry
                     /\ Materialized(e).class = "ScsArchiveDirectoryV2"
                /\ (header.metadataCount = 1 /\ ~header.isDirectory) =>
                     /\ Materialized(e) # NoEntry
                     /\ Materialized(e).class = "ScsArchiveFileV2"
                /\ header.metadataCount = 3 =>
                     /\ ~header.isDirectory
                     /\ Materialized(e) # NoEntry
                     /\ Materialized(e).class = "ScsArchiveTobjFile"
                /\ header.metadataCount \notin {1, 3} => Materialized(e) = NoEntry

\* C19: after a parseEntries that returned, every directory entry of the
\* stores was made from metadata of type DIRECTORY, and every entry header
\* whose single metadata has type DIRECTORY is a directory entry, never a
\* regular file.
C19_DirectoryIffDirectoryType ==
    entries.obj # 0 =>
        /\ \A h \in DOMAIN entries.directories.map :
             HeaderAt(file.entryTable[entries.directories.map[h].index].metadataIndex).type
                = DIRECTORY
        /\ \A e \in DOMAIN file.entryTable :
             (/\ file.entryTable[e].metadataCount = 1
              /\ HeaderAt(file.entryTable[e].metadataIndex).type = DIRECTORY) =>
                /\ Materialized(e) # NoEntry
                /\ Materialized(e).class = "ScsArchiveDirectoryV2"

\* Reading or parsing the listed file fails.
FailsToParse(f) == sectorRegexTest(f.stem) /\ f.outcome = "throws"

\* The listing without the files that fail.
WithoutFailing(listing) == SelectSeq(listing, LAMBDA f : ~FailsToParse(f))

\* C13: when reading or parsing a sector file fails, the error flag of the
\* result is set, and the sectors map returned is the one returned when the
\* failing files are not listed: the remaining files are all processed, and a
\* failing file adds no key, no item and no node.
C13_FailingSectorContributesNothing ==
    sec.state = "returned" =>
        /\ (\E i \in DOMAIN sec.listing : FailsToParse(sec.listing[i])) => sec.result.error
        /\ sec.result.sectors = parseSectorFiles(WithoutFailing(sec.listing), <<"mod", 1>>).sectors

\* The archive layer j of `supplied` stands for: the game archives first,
\* then the mods in modFilePaths order.
LayerOf(j) == IF j = 1 THEN GameLayer ELSE <<"mod", j - 1>>

\* What layer j supplies of a kind: key -> value.
Supplies(j, kind) ==
    CASE kind = "l10n" -> parseLocaleFiles(supplied[j], LayerOf(j))
      [] kind = "icons" -> parseIconMatFiles(supplied[j], LayerOf(j))
      [] kind = "sectors" -> parseSectorFiles(supplied[j].listing, LayerOf(j)).sectors

\* What the object returned holds of a kind.
Final(kind) ==
    CASE kind = "l10n" -> IF result.onlyDefs THEN result.defData.l10n ELSE result.mapData.l10n
      [] kind = "icons" -> result.icons
      [] kind = "sectors" -> result.mapData.sectors

KeysOf(kind) ==
    CASE kind = "l10n" -> LocaleKeys
      [] kind = "icons" -> IconNames
      [] kind = "sectors" -> SectorKeys

\* The key has the value of the last mod that supplies it, the base-game
\* value when no mod does, and is absent when nothing supplies it.
ModsOverride(kind, k) ==
    LET mods == {j \in 2..Len(supplied) : k \in DOMAIN Supplies(j, kind)}
        last == CHOOSE j \in mods : \A o \in mods : o <= j
    IN  IF mods # {}
        THEN k \in DOMAIN Final(kind) /\ Final(kind)[k] = Supplies(last, kind)[k]
        ELSE IF k \in DOMAIN Supplies(1, kind)
        THEN k \in DOMAIN Final(kind) /\ Final(kind)[k] = Supplies(1, kind)[k]
        ELSE k \notin DOMAIN Final(kind)

AllModsOk == \A i \in 1..modFilePaths : modResult[i] = "ok"

\* C14: when parseMapFiles returned and every mod was processed without
\* error, each locale key, icon name and sector key of the result has the
\* value of the last mod, in modFilePaths order, that supplies it, and the
\* base-game value when no mod supplies it.
C14_ModsOverrideInOrder ==
    (pc = "returned" /\ AllModsOk) =>
        \A kind \in IF onlyDefs THEN {"l10n"} ELSE {"l10n", "icons", "sectors"} :
            \A k \in KeysOf(kind) : ModsOverride(kind, k)

\* A full result in which the base game and two mods all supplied the locale
\* key, the icon and the sector.
C14_Witness ==
    /\ pc = "returned" /\ AllModsOk /\ ~onlyDefs
    /\ Len(supplied) >= 3
    /\ \A kind \in {"l10n", "icons", "sectors"} :
         \E k \in KeysOf(kind) : \A j \in 1..3 : k \in DOMAIN Supplies(j, kind)

\* C15: in a run with onlyDefs = true, parseSectorFiles and parseIconMatFiles
\* are never called, for the game archives or for a mod; the object returned
\* holds the definition dictionaries only, and its map label is 'usa' for the
\* application 'ats' and 'europe' for 'eut2'.
C15_OnlyDefs ==
    (onlyDefs /\ pc # "idle") =>
        /\ calls.parseSectorFiles = 0
        /\ calls.parseIconMatFiles = 0
        /\ icons = <<>>
        /\ sectorData.sectors = <<>>
        /\ pc = "returned" =>
             /\ DOMAIN result = {"onlyDefs", "map", "defData"}
             /\ result.onlyDefs
             /\ application = "ats" => result.map = "usa"
             /\ application = "eut2" => result.map = "europe"

\* An onlyDefs run that returned for 'eut2', over game archives and mods that
\* hold icons and sector files.
C15_Witness ==
    /\ onlyDefs /\ pc = "returned" /\ application = "eut2"
    /\ Len(supplied) >= 2
    /\ \A j \in 1..2 : supplied[j].icons # {} /\ supplied[j].listing # <<>>

\* The item types of the closed set.
ClosedItemTypes ==
    {"City", "Road", "Prefab", "MapArea", "MapOverlay", "Ferry", "Company", "Cutscene",
     "Trigger", "Model", "Terrain", "Building", "Curve", "TrajectoryItem"}

\* The positions of the world's items whose type is outside the closed set.
Foreign == {i \in DOMAIN world : world[i].item.type \notin ClosedItemTypes}

\* C16: the reference check raises exactly when an item has a type outside
\* the closed set; every item of a type of the set is classified, whatever
\* node uids and tokens it references (a missing one is a warning), up to the
\* first item of another type.
C16_ReferenceCheckTotal ==
    post.state = "done" =>
        /\ post.out.threw <=> Foreign # {}
        /\ \A i \in DOMAIN world :
             (\A j \in Foreign : i < j) =>
                \E c \in DOMAIN post.out.classified : post.out.classified[c] = world[i].uid

\* A check that returned with warnings for two items whose references are
\* missing.
C16_Witness ==
    /\ post.state = "done"
    /\ ~post.out.threw
    /\ Len(world) = 2
    /\ post.out.warnings >= 2
    /\ Len(post.out.classified) = 2

\* The two nodes are less than 2 apart.
Within2(u, v) ==
    LET a == nodesByUid[u]
        b == nodesByUid[v]
    IN  (a.x - b.x) * (a.x - b.x) + (a.y - b.y) * (a.y - b.y) < 4

\* Item j of the world is a divider as the claim lists them.
StatedDivider(j) ==
    \/ world[j].item.type = "Terrain"
    \/ world[j].item.type = "Building" /\ world[j].item.scheme = "scheme20"
    \/ world[j].item.type = "Curve" /\ world[j].item.model \in {"0i03a", "0i03b"}

\* Divider j lies along road i: same sector, both nodes exist, ends within
\* the threshold of the road's ends in one orientation or the other.
LiesAlong(j, i) ==
    LET r == world[i].item
        d == world[j].item
    IN  /\ world[j].sector = world[i].sector
        /\ StatedDivider(j)
        /\ d.startNodeUid \in DOMAIN nodesByUid
        /\ d.endNodeUid \in DOMAIN nodesByUid
        /\ \/ Within2(r.startNodeUid, d.startNodeUid) /\ Within2(r.endNodeUid, d.endNodeUid)
           \/ Within2(r.startNodeUid, d.endNodeUid) /\ Within2(r.endNodeUid, d.startNodeUid)

\* The world with the start and end of item j exchanged.
Swapped(j) ==
    [world EXCEPT ![j].item = [@ EXCEPT !.startNodeUid = world[j].item.endNodeUid,
                                        !.endNodeUid = world[j].item.startNodeUid]]

\* C17: a road whose two endpoint nodes exist is emitted once, with
\* maybeDivided set iff some divider of its sector (a terrain, a scheme20
\* building, a 0i03a or 0i03b curve) has both nodes existing and within the
\* threshold of 2 of the road's ends, start to start and end to end or the
\* other way round; the emitted roads are the same when any other item's start
\* and end are swapped, and the same without the items of other sectors.
C17_RoadSplitDetection ==
    post.state = "done" =>
        /\ \A i \in DOMAIN world :
              (/\ world[i].item.type = "Road"
               /\ world[i].item.startNodeUid \in DOMAIN nodesByUid
               /\ world[i].item.endNodeUid \in DOMAIN nodesByUid) =>
                 /\ Cardinality({k \in DOMAIN post.out.roads :
                                   post.out.roads[k].uid = world[i].uid}) = 1
                 /\ \A k \in DOMAIN post.out.roads :
                       post.out.roads[k].uid = world[i].uid =>
                          (post.out.roads[k].maybeDivided
                             <=> \E j \in DOMAIN world : LiesAlong(j, i))
        /\ \A j \in DOMAIN world :
              world[j].item.type # "Road" => postProcess(Swapped(j)).roads = post.out.roads
        /\ postProcess(SelectSeq(world, LAMBDA p : p.sector = "A")).roads = post.out.roads

\* A road flagged by a divider of its sector that runs the other way, next
\* to one in another sector.
C17_Witness ==
    /\ post.state = "done" /\ Len(world) = 3
    /\ world[1].item.endNodeUid = 2
    /\ world[2].item.type = "Curve" /\ world[2].sector = "A"
    /\ world[2].item.startNodeUid = 4 /\ world[2].item.endNodeUid = 3
    /\ world[3].item.type = "Terrain" /\ world[3].sector = "B"
    /\ Len(post.out.roads) = 1 /\ post.out.roads[1].maybeDivided

\* Item i is a Company whose prefab item is known, whose token has an icon
\* and whose prefab description exists and has no CompanyPos spawn point.
FallsBack(i) ==
    /\ world[i].item.type = "Company"
    /\ world[i].item.token \in iconNames
    /\ \E j \in DOMAIN world :
         /\ world[j].uid = world[i].item.prefabUid
         /\ world[j].item.type = "Prefab"
         /\ world[j].item.token \in DOMAIN defData.prefabs
         /\ \A n \in DOMAIN defData.prefabs[world[j].item.token].spawnPoints :
               defData.prefabs[world[j].item.token].spawnPoints[n] # "CompanyPos"

\* The fallback bucket holds the token of item i.
InFallbackBucket(i) ==
    \E k \in DOMAIN post.out.fallbackPoiCompanies :
       post.out.fallbackPoiCompanies[k] =
          [token |-> world[i].item.token, itemUid |-> world[i].uid,
           nodeUid |-> world[i].item.nodeUid]

\* A company POI and one company entry of item i, both at the position of
\* the item's node.
EmittedAtNode(i) ==
    /\ world[i].item.nodeUid \in DOMAIN nodesByUid
    /\ LET node == nodesByUid[world[i].item.nodeUid]
       IN  /\ \E k \in DOMAIN post.out.companyPois :
                /\ post.out.companyPois[k].type = "company"
                /\ post.out.companyPois[k].icon = world[i].item.token
                /\ post.out.companyPois[k].x = node.x
                /\ post.out.companyPois[k].y = node.y
           /\ Cardinality({k \in DOMAIN post.out.companies :
                             post.out.companies[k].uid = world[i].uid}) = 1
           /\ \A k \in DOMAIN post.out.companies :
                 post.out.companies[k].uid = world[i].uid =>
                    /\ post.out.companies[k].x = node.x
                    /\ post.out.companies[k].y = node.y

\* C18 as stated: a Company item whose prefab item is known, whose token has
\* an icon and whose prefab description has no CompanyPos spawn point raises
\* nothing, is recorded in the fallback bucket, and has a company POI and a
\* company entry at the position of its node.
C18_CompanyFallback ==
    (post.state = "done" /\ Foreign = {}) =>
        /\ ~post.out.threw
        /\ \A i \in DOMAIN world : FallsBack(i) => InFallbackBucket(i) /\ EmittedAtNode(i)

\* C18, amended: such a Company item raises nothing and is recorded in the
\* fallback bucket; it has a company POI and a company entry at the position
\* of its node when the node is in the node index, and no company entry when
\* it is not. Every company entry comes with one company POI.
C18_CompanyFallbackWhenNodeExists ==
    (post.state = "done" /\ Foreign = {}) =>
        /\ ~post.out.threw
        /\ Len(post.out.companyPois) = Len(post.out.companies)
        /\ \A i \in DOMAIN world :
              FallsBack(i) =>
                 /\ InFallbackBucket(i)
                 /\ IF world[i].item.nodeUid \in DOMAIN nodesByUid
                    THEN EmittedAtNode(i)
                    ELSE \A k \in DOMAIN post.out.companies :
                            post.out.companies[k].uid # world[i].uid

\* A company that fell back to its node, which exists, and was emitted.
C18_Witness ==
    /\ post.state = "done" /\ Len(world) = 2 /\ ~post.out.threw
    /\ FallsBack(2) /\ world[2].item.nodeUid = 5
    /\ Len(post.out.fallbackPoiCompanies) = 1
    /\ Len(post.out.companies) = 1 /\ post.out.companies[1].x = 2

\* The elements of a sequence.
Range(seq) == {seq[k] : k \in DOMAIN seq}

\* The node uids item i references, as the claim lists them by type.
StatedReferences(i) ==
    LET it == world[i].item
    IN  CASE it.type = "Road" -> {it.startNodeUid, it.endNodeUid}
          [] it.type \in {"Prefab", "MapArea", "Trigger", "TrajectoryItem"} -> Range(it.nodeUids)
          [] it.type \in {"MapOverlay", "Company", "Cutscene"} -> {it.nodeUid}
          [] it.type = "Ferry" -> IF it.token \in defData.ferries THEN {it.nodeUid} ELSE {}
          [] it.type = "Model" -> IF it.token \in defData.models THEN {it.nodeUid} ELSE {}
          [] it.type = "Building" ->
               IF it.scheme = "scheme20" THEN {it.startNodeUid, it.endNodeUid} ELSE {}
          [] it.type = "Curve" ->
               IF it.model \in {"0i03a", "0i03b"} THEN {it.startNodeUid, it.endNodeUid} ELSE {}
          [] OTHER -> {}

\* C20: the nodes array postProcess returns holds, once each and with nothing
\* else, the nodes of the node index whose uid is referenced by a Road, a
\* Prefab, MapArea, Trigger or TrajectoryItem, a MapOverlay, Company or
\* Cutscene, a Ferry with a defined token, a Model with a building token, or a
\* non-terrain divider; referenced uids that are not in the index are dropped.
C20_ReferencedNodes ==
    (post.state = "done" /\ ~post.out.threw) =>
        /\ \A a, b \in DOMAIN post.out.nodes :
              post.out.nodes[a].uid = post.out.nodes[b].uid => a = b
        /\ \A k \in DOMAIN post.out.nodes :
              /\ post.out.nodes[k].uid \in DOMAIN nodesByUid
              /\ post.out.nodes[k] = nodesByUid[post.out.nodes[k].uid]
        /\ {post.out.nodes[k].uid : k \in DOMAIN post.out.nodes}
              = (UNION {StatedReferences(i) : i \in DOMAIN world}) \cap DOMAIN nodesByUid

\* A road with a missing start and a prefab that shares the road's end node:
\* the missing uid is dropped and the shared node is there once.
C20_Witness ==
    /\ post.state = "done" /\ ~post.out.threw /\ Len(world) = 2
    /\ world[1].item.type = "Road" /\ world[1].item.startNodeUid = MissingNode
    /\ world[2].item.type = "Prefab" /\ world[2].item.token = "pf_company"
    /\ Len(post.out.nodes) = 2

\* Target k lacks explicit (x, y), carries a node uid, and the node exists.
ToBeRewritten(k) ==
    LET t == mileage.targets[k]
    IN  /\ ~(t.x.has /\ t.y.has)
        /\ t.nodeUid.has
        /\ t.nodeUid.v \in DOMAIN nodesByUid

\* C21: mileage-target augmentation rewrites a target iff the target lacks
\* explicit (x, y), carries a node uid and the node is in the node index; the
\* rewritten target has the node's position and no node uid; every target
\* with explicit x and y, a coordinate equal to 0 included, and every target
\* without a node uid or with an unknown node, is left unchanged.
C21_MileageTargetAugmentation ==
    mileage.state = "done" =>
        \A k \in DOMAIN mileage.targets :
            IF ToBeRewritten(k)
            THEN mileage.out[k] =
                    [x |-> Present(nodesByUid[mileage.targets[k].nodeUid.v].x),
                     y |-> Present(nodesByUid[mileage.targets[k].nodeUid.v].y),
                     nodeUid |-> Absent]
            ELSE mileage.out[k] = mileage.targets[k]

\* The name of the listed file, without its extension, is not a sector key.
Malformed(f) == f.stem \notin SectorKeys

\* The two signed four-digit groups of the model's sector keys, as numbers.
StatedSectorXY(key) ==
    IF key = <<"s", "e", "c", "+", "0", "0", "0", "1", "-", "0", "0", "0", "2">>
    THEN [sectorX |-> 1, sectorY |-> 0 - 2]
    ELSE [sectorX |-> 0 - 10, sectorY |-> 0]

\* C22: a listed file whose name is not a sector key sets the error flag,
\* adds no key and does not stop the loop (the sectors map is the one of the
\* listing without it); every item and node stored under a sector key carries
\* the sectorX and sectorY of the key's two signed groups; and the .base and
\* .aux files of one key that parse both land in the sector of that key.
C22_SectorKeys ==
    sec.state = "returned" =>
        /\ (\E i \in DOMAIN sec.listing : Malformed(sec.listing[i])) => sec.result.error
        /\ DOMAIN sec.result.sectors \subseteq SectorKeys
        /\ sec.result.sectors
              = parseSectorFiles(SelectSeq(sec.listing, LAMBDA f : ~Malformed(f)),
                                 <<"mod", 1>>).sectors
        /\ \A key \in DOMAIN sec.result.sectors :
              /\ \A uid \in DOMAIN sec.result.sectors[key].items :
                    /\ sec.result.sectors[key].items[uid].uid = uid
                    /\ sec.result.sectors[key].items[uid].sectorX = StatedSectorXY(key).sectorX
                    /\ sec.result.sectors[key].items[uid].sectorY = StatedSectorXY(key).sectorY
              /\ \A uid \in DOMAIN sec.result.sectors[key].nodes :
                    /\ sec.result.sectors[key].nodes[uid].uid = uid
                    /\ sec.result.sectors[key].nodes[uid].sectorX = StatedSectorXY(key).sectorX
                    /\ sec.result.sectors[key].nodes[uid].sectorY = StatedSectorXY(key).sectorY
        /\ \A i \in DOMAIN sec.listing :
              (~Malformed(sec.listing[i]) /\ sec.listing[i].outcome = "ok") =>
                 /\ sec.listing[i].stem \in DOMAIN sec.result.sectors
                 /\ (IF sec.listing[i].ext = "base" THEN 1 ELSE 2)
                       \in DOMAIN sec.result.sectors[sec.listing[i].stem].items
                 /\ (IF sec.listing[i].ext = "base" THEN 1 ELSE 2)
                       \in DOMAIN sec.result.sectors[sec.listing[i].stem].nodes

\* A file with a malformed name listed before the .aux file of a sector with
\* a negative x: the flag is set and the later file is stored and annotated.
C22_Witness ==
    /\ sec.state = "returned" /\ Len(sec.listing) = 2
    /\ Malformed(sec.listing[1])
    /\ sec.listing[2].outcome = "ok" /\ sec.listing[2].ext = "aux"
    /\ sec.result.error
    /\ sec.listing[2].stem \in DOMAIN sec.result.sectors
    /\ sec.result.sectors[sec.listing[2].stem].items[2].sectorX = 0 - 10

\* C23: the progress counter of parseSectorFiles goes up by exactly one for
\* each listed file, whatever happens to the file (malformed key, no file
\* entry, nothing parsed, a throw, success): it never decreases, and after the
\* loop it equals the number of listed files.
C23_ProgressCounter ==
    sec.state = "returned" =>
        /\ Len(sec.result.bar) = Len(sec.listing)
        /\ \A i \in DOMAIN sec.result.bar : sec.result.bar[i] = i

\* A listing whose two files leave the loop body by different paths, one of
\* them a throw.
C23_Witness ==
    /\ sec.state = "returned" /\ Len(sec.listing) = 2
    /\ sec.listing[1].outcome = "throws" /\ sectorRegexTest(sec.listing[1].stem)
    /\ ~sectorRegexTest(sec.listing[2].stem)
    /\ sec.result.bar = <<1, 2>>

\* The mod loop of parseMapFiles has ended.
AfterModLoop == pc = "modLoop" /\ modIndex > modArchives

\* C24: after the mod loop every mod archive has been counted exactly once:
\* success + failure is the number of mod archives, with onlyDefs and without.
C24_EveryModCounted ==
    AfterModLoop => success + failure = modArchives

\* C25: every Road item of the item index appears exactly once in the roads
\* array postProcess returns, flagged or not, the roads with a start or end
\* node missing from the node index included; no road appears twice.
C25_EveryRoadEmittedOnce ==
    (post.state = "done" /\ ~post.out.threw) =>
        /\ \A i \in DOMAIN world :
              world[i].item.type = "Road" =>
                 Cardinality({k \in DOMAIN post.out.roads :
                                 post.out.roads[k].uid = world[i].uid}) = 1
        /\ \A a, b \in DOMAIN post.out.roads :
              post.out.roads[a].uid = post.out.roads[b].uid => a = b

\* C26: no archive is used after its dispose(): every parseEntries(), store
\* lookup and entry read() of parseMapFiles is on an archive whose fd has not
\* been closed, for the game archives the base phase disposes and for the mod
\* archive each loop iteration disposes.
C26_NoUseAfterDispose ==
    \A u \in uses : ~u.closed

\* A run that returned after two mod iterations: every opened archive was
\* used and has been disposed.
C26_Witness ==
    /\ pc = "returned" /\ gameArchives >= 1 /\ modArchives = 2
    /\ \A a \in OpenedArchives :
          /\ closeCount[a] >= 1
          /\ \E u \in uses : u.archive = a

\* C27: every connection of every ferry postProcess emits carries the uid of
\* a node that is in the node index and the (x, y) of that node; a connection
\* whose ferry item or node cannot be resolved is never emitted with a
\* placeholder position.
C27_FerryConnectionsResolved ==
    (post.state = "done" /\ ~post.out.threw) =>
        \A f \in DOMAIN post.out.ferries :
           \A c \in DOMAIN post.out.ferries[f].connections :
              LET connection == post.out.ferries[f].connections[c]
              IN  /\ connection.nodeUid \in DOMAIN nodesByUid
                  /\ connection.x = nodesByUid[connection.nodeUid].x
                  /\ connection.y = nodesByUid[connection.nodeUid].y
====
